---- MODULE Spec2Model ----
(***************************************************************************)
(* The argument parser of cmake_format (cmake_format/parse/                *)
(* argument_nodes.py): StandardArgTree, KeywordGroupNode,                  *)
(* PositionalGroupNode, ParenGroupNode and ConditionalGroupNode, together  *)
(* with StandardArgTree.check_required_kwargs; and the per-command         *)
(* overrides of Configuration (cmake_format/configuration.py).             *)
(*                                                                         *)
(* A token is a record [type, spelling, loc]; a tree node is a record      *)
(* with at least [node_type, children]; children is a sequence of tokens   *)
(* and nodes.  A parser takes the remaining token list and returns         *)
(* [tree, tokens, status]: the node it built, the list as it left it, and  *)
(* "ok" or the exception it raised.                                        *)
(***************************************************************************)
EXTENDS Integers, Sequences, FiniteSets, TLC

VARIABLES stream, pc, call, result, required_kwargs, lint_sink, config

vars == <<stream, pc, call, result, required_kwargs, lint_sink, config>>

\* ------------------------------------------------------------------ bounds

\* Longest enumerated token stream.
MaxLen == 3

\* ------------------------------------------------------------------ str

\* The case mapping of str.upper and str.lower: the Unicode character
\* database, version 14.0.0, as CPython applies it, over the characters a
\* string of this module can hold.  A string literal holds the characters
\* below U+0100, the line ends and the grave accent excepted, and those
\* whose code units end in a byte of 80 to FF.

\* The characters str.upper changes, <<character, upper case>>, in code
\* point order; the upper case of some is more than one character.
ToUpperFull == <<
  <<"a", "A">>, <<"b", "B">>, <<"c", "C">>, <<"d", "D">>, <<"e", "E">>, <<"f", "F">>,
  <<"g", "G">>, <<"h", "H">>, <<"i", "I">>, <<"j", "J">>, <<"k", "K">>, <<"l", "L">>,
  <<"m", "M">>, <<"n", "N">>, <<"o", "O">>, <<"p", "P">>, <<"q", "Q">>, <<"r", "R">>,
  <<"s", "S">>, <<"t", "T">>, <<"u", "U">>, <<"v", "V">>, <<"w", "W">>, <<"x", "X">>,
  <<"y", "Y">>, <<"z", "Z">>, <<"µ", "Μ">>, <<"ß", "SS">>, <<"à", "À">>, <<"á", "Á">>,
  <<"â", "Â">>, <<"ã", "Ã">>, <<"ä", "Ä">>, <<"å", "Å">>, <<"æ", "Æ">>, <<"ç", "Ç">>,
  <<"è", "È">>, <<"é", "É">>, <<"ê", "Ê">>, <<"ë", "Ë">>, <<"ì", "Ì">>, <<"í", "Í">>,
  <<"î", "Î">>, <<"ï", "Ï">>, <<"ð", "Ð">>, <<"ñ", "Ñ">>, <<"ò", "Ò">>, <<"ó", "Ó">>,
  <<"ô", "Ô">>, <<"õ", "Õ">>, <<"ö", "Ö">>, <<"ø", "Ø">>, <<"ù", "Ù">>, <<"ú", "Ú">>,
  <<"û", "Û">>, <<"ü", "Ü">>, <<"ý", "Ý">>, <<"þ", "Þ">>, <<"ƃ", "Ƃ">>, <<"ƅ", "Ƅ">>,
  <<"ƈ", "Ƈ">>, <<"ƌ", "Ƌ">>, <<"ƒ", "Ƒ">>, <<"ƕ", "Ƕ">>, <<"ƙ", "Ƙ">>, <<"ơ", "Ơ">>,
  <<"ƣ", "Ƣ">>, <<"ƥ", "Ƥ">>, <<"ƨ", "Ƨ">>, <<"ƭ", "Ƭ">>, <<"ư", "Ư">>, <<"ƴ", "Ƴ">>,
  <<"ƶ", "Ƶ">>, <<"ƹ", "Ƹ">>, <<"ƽ", "Ƽ">>, <<"ƿ", "Ƿ">>, <<"ǅ", "Ǆ">>, <<"ǆ", "Ǆ">>,
  <<"ǈ", "Ǉ">>, <<"ǉ", "Ǉ">>, <<"ǋ", "Ǌ">>, <<"ǌ", "Ǌ">>, <<"ǎ", "Ǎ">>, <<"ǐ", "Ǐ">>,
  <<"ǒ", "Ǒ">>, <<"ǔ", "Ǔ">>, <<"ǖ", "Ǖ">>, <<"ǘ", "Ǘ">>, <<"ǚ", "Ǚ">>, <<"ǜ", "Ǜ">>,
  <<"ǝ", "Ǝ">>, <<"ǟ", "Ǟ">>, <<"ǡ", "Ǡ">>, <<"ǣ", "Ǣ">>, <<"ǥ", "Ǥ">>, <<"ǧ", "Ǧ">>,
  <<"ǩ", "Ǩ">>, <<"ǫ", "Ǫ">>, <<"ǭ", "Ǭ">>, <<"ǯ", "Ǯ">>, <<"ǲ", "Ǳ">>, <<"ǳ", "Ǳ">>,
  <<"ǵ", "Ǵ">>, <<"ǹ", "Ǹ">>, <<"ǻ", "Ǻ">>, <<"ǽ", "Ǽ">>, <<"ǿ", "Ǿ">>, <<"ʀ", "Ʀ">>,
  <<"ʂ", "Ʂ">>, <<"ʃ", "Ʃ">>, <<"ʇ", "Ʇ">>, <<"ʈ", "Ʈ">>, <<"ʊ", "Ʊ">>, <<"ʋ", "Ʋ">>,
  <<"ʒ", "Ʒ">>, <<"ʝ", "Ʝ">>, <<"ʞ", "Ʞ">>, <<"ά", "Ά">>, <<"έ", "Έ">>, <<"ή", "Ή">>,
  <<"ί", "Ί">>, <<"α", "Α">>, <<"β", "Β">>, <<"γ", "Γ">>, <<"δ", "Δ">>, <<"ε", "Ε">>,
  <<"ζ", "Ζ">>, <<"η", "Η">>, <<"θ", "Θ">>, <<"ι", "Ι">>, <<"κ", "Κ">>, <<"λ", "Λ">>,
  <<"μ", "Μ">>, <<"ν", "Ν">>, <<"ξ", "Ξ">>, <<"ο", "Ο">>, <<"π", "Π">>, <<"ρ", "Ρ">>,
  <<"ς", "Σ">>, <<"σ", "Σ">>, <<"τ", "Τ">>, <<"υ", "Υ">>, <<"φ", "Φ">>, <<"χ", "Χ">>,
  <<"ψ", "Ψ">>, <<"ω", "Ω">>, <<"ϊ", "Ϊ">>, <<"ϋ", "Ϋ">>, <<"ό", "Ό">>, <<"ύ", "Ύ">>,
  <<"ώ", "Ώ">>, <<"ϐ", "Β">>, <<"ϑ", "Θ">>, <<"ϕ", "Φ">>, <<"ϖ", "Π">>, <<"ϗ", "Ϗ">>,
  <<"ϙ", "Ϙ">>, <<"ϛ", "Ϛ">>, <<"ϝ", "Ϝ">>, <<"ϟ", "Ϟ">>, <<"ϡ", "Ϡ">>, <<"ϣ", "Ϣ">>,
  <<"ϥ", "Ϥ">>, <<"ϧ", "Ϧ">>, <<"ϩ", "Ϩ">>, <<"ϫ", "Ϫ">>, <<"ϭ", "Ϭ">>, <<"ϯ", "Ϯ">>,
  <<"ϰ", "Κ">>, <<"ϱ", "Ρ">>, <<"ϲ", "Ϲ">>, <<"ϵ", "Ε">>, <<"ϸ", "Ϸ">>, <<"ϻ", "Ϻ">>,
  <<"ҁ", "Ҁ">>, <<"ҋ", "Ҋ">>, <<"ҍ", "Ҍ">>, <<"ҏ", "Ҏ">>, <<"ґ", "Ґ">>, <<"ғ", "Ғ">>,
  <<"ҕ", "Ҕ">>, <<"җ", "Җ">>, <<"ҙ", "Ҙ">>, <<"қ", "Қ">>, <<"ҝ", "Ҝ">>, <<"ҟ", "Ҟ">>,
  <<"ҡ", "Ҡ">>, <<"ң", "Ң">>, <<"ҥ", "Ҥ">>, <<"ҧ", "Ҧ">>, <<"ҩ", "Ҩ">>, <<"ҫ", "Ҫ">>,
  <<"ҭ", "Ҭ">>, <<"ү", "Ү">>, <<"ұ", "Ұ">>, <<"ҳ", "Ҳ">>, <<"ҵ", "Ҵ">>, <<"ҷ", "Ҷ">>,
  <<"ҹ", "Ҹ">>, <<"һ", "Һ">>, <<"ҽ", "Ҽ">>, <<"ҿ", "Ҿ">>, <<"ӂ", "Ӂ">>, <<"ӄ", "Ӄ">>,
  <<"ӆ", "Ӆ">>, <<"ӈ", "Ӈ">>, <<"ӊ", "Ӊ">>, <<"ӌ", "Ӌ">>, <<"ӎ", "Ӎ">>, <<"ӏ", "Ӏ">>,
  <<"ӑ", "Ӑ">>, <<"ӓ", "Ӓ">>, <<"ӕ", "Ӕ">>, <<"ӗ", "Ӗ">>, <<"ә", "Ә">>, <<"ӛ", "Ӛ">>,
  <<"ӝ", "Ӝ">>, <<"ӟ", "Ӟ">>, <<"ӡ", "Ӡ">>, <<"ӣ", "Ӣ">>, <<"ӥ", "Ӥ">>, <<"ӧ", "Ӧ">>,
  <<"ө", "Ө">>, <<"ӫ", "Ӫ">>, <<"ӭ", "Ӭ">>, <<"ӯ", "Ӯ">>, <<"ӱ", "Ӱ">>, <<"ӳ", "Ӳ">>,
  <<"ӵ", "Ӵ">>, <<"ӷ", "Ӷ">>, <<"ӹ", "Ӹ">>, <<"ӻ", "Ӻ">>, <<"ӽ", "Ӽ">>, <<"ӿ", "Ӿ">>,
  <<"ა", "Ა">>, <<"ბ", "Ბ">>, <<"გ", "Გ">>, <<"დ", "Დ">>, <<"ე", "Ე">>, <<"ვ", "Ვ">>,
  <<"ზ", "Ზ">>, <<"თ", "Თ">>, <<"ი", "Ი">>, <<"კ", "Კ">>, <<"ლ", "Ლ">>, <<"მ", "Მ">>,
  <<"ნ", "Ნ">>, <<"ო", "Ო">>, <<"პ", "Პ">>, <<"ჟ", "Ჟ">>, <<"რ", "Რ">>, <<"ს", "Ს">>,
  <<"ტ", "Ტ">>, <<"უ", "Უ">>, <<"ფ", "Ფ">>, <<"ქ", "Ქ">>, <<"ღ", "Ღ">>, <<"ყ", "Ყ">>,
  <<"შ", "Შ">>, <<"ჩ", "Ჩ">>, <<"ც", "Ც">>, <<"ძ", "Ძ">>, <<"წ", "Წ">>, <<"ჭ", "Ჭ">>,
  <<"ხ", "Ხ">>, <<"ჯ", "Ჯ">>, <<"ჰ", "Ჰ">>, <<"ჱ", "Ჱ">>, <<"ჲ", "Ჲ">>, <<"ჳ", "Ჳ">>,
  <<"ჴ", "Ჴ">>, <<"ჵ", "Ჵ">>, <<"ჶ", "Ჶ">>, <<"ჷ", "Ჷ">>, <<"ჸ", "Ჸ">>, <<"ჹ", "Ჹ">>,
  <<"ჺ", "Ჺ">>, <<"ჽ", "Ჽ">>, <<"ჾ", "Ჾ">>, <<"ჿ", "Ჿ">>, <<"ᏸ", "Ᏸ">>, <<"ᏹ", "Ᏹ">>,
  <<"ᏺ", "Ᏺ">>, <<"ᏻ", "Ᏻ">>, <<"ᏼ", "Ᏼ">>, <<"ᏽ", "Ᏽ">>, <<"ᶎ", "Ᶎ">>, <<"ẁ", "Ẁ">>,
  <<"ẃ", "Ẃ">>, <<"ẅ", "Ẅ">>, <<"ẇ", "Ẇ">>, <<"ẉ", "Ẉ">>, <<"ẋ", "Ẋ">>, <<"ẍ", "Ẍ">>,
  <<"ẏ", "Ẏ">>, <<"ẑ", "Ẑ">>, <<"ẓ", "Ẓ">>, <<"ẕ", "Ẕ">>, <<"ẚ", "Aʾ">>, <<"ạ", "Ạ">>,
  <<"ả", "Ả">>, <<"ấ", "Ấ">>, <<"ầ", "Ầ">>, <<"ẩ", "Ẩ">>, <<"ẫ", "Ẫ">>, <<"ậ", "Ậ">>,
  <<"ắ", "Ắ">>, <<"ằ", "Ằ">>, <<"ẳ", "Ẳ">>, <<"ẵ", "Ẵ">>, <<"ặ", "Ặ">>, <<"ẹ", "Ẹ">>,
  <<"ẻ", "Ẻ">>, <<"ẽ", "Ẽ">>, <<"ế", "Ế">>, <<"ề", "Ề">>, <<"ể", "Ể">>, <<"ễ", "Ễ">>,
  <<"ệ", "Ệ">>, <<"ỉ", "Ỉ">>, <<"ị", "Ị">>, <<"ọ", "Ọ">>, <<"ỏ", "Ỏ">>, <<"ố", "Ố">>,
  <<"ồ", "Ồ">>, <<"ổ", "Ổ">>, <<"ỗ", "Ỗ">>, <<"ộ", "Ộ">>, <<"ớ", "Ớ">>, <<"ờ", "Ờ">>,
  <<"ở", "Ở">>, <<"ỡ", "Ỡ">>, <<"ợ", "Ợ">>, <<"ụ", "Ụ">>, <<"ủ", "Ủ">>, <<"ứ", "Ứ">>,
  <<"ừ", "Ừ">>, <<"ử", "Ử">>, <<"ữ", "Ữ">>, <<"ự", "Ự">>, <<"ỳ", "Ỳ">>, <<"ỵ", "Ỵ">>,
  <<"ỷ", "Ỷ">>, <<"ỹ", "Ỹ">>, <<"ỻ", "Ỻ">>, <<"ỽ", "Ỽ">>, <<"ỿ", "Ỿ">>, <<"ᾰ", "Ᾰ">>,
  <<"ᾱ", "Ᾱ">>, <<"ᾲ", "ᾺΙ">>, <<"ᾳ", "ΑΙ">>, <<"ᾴ", "ΆΙ">>, <<"ᾼ", "ΑΙ">>, <<"ι", "Ι">>,
  <<"ῂ", "ῊΙ">>, <<"ῃ", "ΗΙ">>, <<"ῄ", "ΉΙ">>, <<"ῌ", "ΗΙ">>, <<"ῐ", "Ῐ">>, <<"ῑ", "Ῑ">>,
  <<"ῠ", "Ῠ">>, <<"ῡ", "Ῡ">>, <<"ῥ", "Ῥ">>, <<"ῲ", "ῺΙ">>, <<"ῳ", "ΩΙ">>, <<"ῴ", "ΏΙ">>,
  <<"ῼ", "ΩΙ">>, <<"ↄ", "Ↄ">>, <<"ⓐ", "Ⓐ">>, <<"ⓑ", "Ⓑ">>, <<"ⓒ", "Ⓒ">>, <<"ⓓ", "Ⓓ">>,
  <<"ⓔ", "Ⓔ">>, <<"ⓕ", "Ⓕ">>, <<"ⓖ", "Ⓖ">>, <<"ⓗ", "Ⓗ">>, <<"ⓘ", "Ⓘ">>, <<"ⓙ", "Ⓙ">>,
  <<"ⓚ", "Ⓚ">>, <<"ⓛ", "Ⓛ">>, <<"ⓜ", "Ⓜ">>, <<"ⓝ", "Ⓝ">>, <<"ⓞ", "Ⓞ">>, <<"ⓟ", "Ⓟ">>,
  <<"ⓠ", "Ⓠ">>, <<"ⓡ", "Ⓡ">>, <<"ⓢ", "Ⓢ">>, <<"ⓣ", "Ⓣ">>, <<"ⓤ", "Ⓤ">>, <<"ⓥ", "Ⓥ">>,
  <<"ⓦ", "Ⓦ">>, <<"ⓧ", "Ⓧ">>, <<"ⓨ", "Ⓨ">>, <<"ⓩ", "Ⓩ">>, <<"ⲁ", "Ⲁ">>, <<"ⲃ", "Ⲃ">>,
  <<"ⲅ", "Ⲅ">>, <<"ⲇ", "Ⲇ">>, <<"ⲉ", "Ⲉ">>, <<"ⲋ", "Ⲋ">>, <<"ⲍ", "Ⲍ">>, <<"ⲏ", "Ⲏ">>,
  <<"ⲑ", "Ⲑ">>, <<"ⲓ", "Ⲓ">>, <<"ⲕ", "Ⲕ">>, <<"ⲗ", "Ⲗ">>, <<"ⲙ", "Ⲙ">>, <<"ⲛ", "Ⲛ">>,
  <<"ⲝ", "Ⲝ">>, <<"ⲟ", "Ⲟ">>, <<"ⲡ", "Ⲡ">>, <<"ⲣ", "Ⲣ">>, <<"ⲥ", "Ⲥ">>, <<"ⲧ", "Ⲧ">>,
  <<"ⲩ", "Ⲩ">>, <<"ⲫ", "Ⲫ">>, <<"ⲭ", "Ⲭ">>, <<"ⲯ", "Ⲯ">>, <<"ⲱ", "Ⲱ">>, <<"ⲳ", "Ⲳ">>,
  <<"ⲵ", "Ⲵ">>, <<"ⲷ", "Ⲷ">>, <<"ⲹ", "Ⲹ">>, <<"ⲻ", "Ⲻ">>, <<"ⲽ", "Ⲽ">>, <<"ⲿ", "Ⲿ">>,
  <<"ⳁ", "Ⳁ">>, <<"ⳃ", "Ⳃ">>, <<"ⳅ", "Ⳅ">>, <<"ⳇ", "Ⳇ">>, <<"ⳉ", "Ⳉ">>, <<"ⳋ", "Ⳋ">>,
  <<"ⳍ", "Ⳍ">>, <<"ⳏ", "Ⳏ">>, <<"ⳑ", "Ⳑ">>, <<"ⳓ", "Ⳓ">>, <<"ⳕ", "Ⳕ">>, <<"ⳗ", "Ⳗ">>,
  <<"ⳙ", "Ⳙ">>, <<"ⳛ", "Ⳛ">>, <<"ⳝ", "Ⳝ">>, <<"ⳟ", "Ⳟ">>, <<"ⳡ", "Ⳡ">>, <<"ⳣ", "Ⳣ">>,
  <<"ⳬ", "Ⳬ">>, <<"ⳮ", "Ⳮ">>, <<"ⳳ", "Ⳳ">>, <<"ꚁ", "Ꚁ">>, <<"ꚃ", "Ꚃ">>, <<"ꚅ", "Ꚅ">>,
  <<"ꚇ", "Ꚇ">>, <<"ꚉ", "Ꚉ">>, <<"ꚋ", "Ꚋ">>, <<"ꚍ", "Ꚍ">>, <<"ꚏ", "Ꚏ">>, <<"ꚑ", "Ꚑ">>,
  <<"ꚓ", "Ꚓ">>, <<"ꚕ", "Ꚕ">>, <<"ꚗ", "Ꚗ">>, <<"ꚙ", "Ꚙ">>, <<"ꚛ", "Ꚛ">>, <<"ꞁ", "Ꞁ">>,
  <<"ꞃ", "Ꞃ">>, <<"ꞅ", "Ꞅ">>, <<"ꞇ", "Ꞇ">>, <<"ꞌ", "Ꞌ">>, <<"ꞑ", "Ꞑ">>, <<"ꞓ", "Ꞓ">>,
  <<"ꞔ", "Ꞔ">>, <<"ꞗ", "Ꞗ">>, <<"ꞙ", "Ꞙ">>, <<"ꞛ", "Ꞛ">>, <<"ꞝ", "Ꞝ">>, <<"ꞟ", "Ꞟ">>,
  <<"ꞡ", "Ꞡ">>, <<"ꞣ", "Ꞣ">>, <<"ꞥ", "Ꞥ">>, <<"ꞧ", "Ꞧ">>, <<"ꞩ", "Ꞩ">>, <<"ꞵ", "Ꞵ">>,
  <<"ꞷ", "Ꞷ">>, <<"ꞹ", "Ꞹ">>, <<"ꞻ", "Ꞻ">>, <<"ꞽ", "Ꞽ">>, <<"ꞿ", "Ꞿ">>, <<"ꟁ", "Ꟁ">>,
  <<"ꟃ", "Ꟃ">>, <<"ꟈ", "Ꟈ">>, <<"ꟊ", "Ꟊ">>, <<"ꟑ", "Ꟑ">>, <<"ꟗ", "Ꟗ">>, <<"ꟙ", "Ꟙ">>,
  <<"ꟶ", "Ꟶ">>, <<"ꮀ", "Ꮀ">>, <<"ꮁ", "Ꮁ">>, <<"ꮂ", "Ꮂ">>, <<"ꮃ", "Ꮃ">>, <<"ꮄ", "Ꮄ">>,
  <<"ꮅ", "Ꮅ">>, <<"ꮆ", "Ꮆ">>, <<"ꮇ", "Ꮇ">>, <<"ꮈ", "Ꮈ">>, <<"ꮉ", "Ꮉ">>, <<"ꮊ", "Ꮊ">>,
  <<"ꮋ", "Ꮋ">>, <<"ꮌ", "Ꮌ">>, <<"ꮍ", "Ꮍ">>, <<"ꮎ", "Ꮎ">>, <<"ꮏ", "Ꮏ">>, <<"ꮐ", "Ꮐ">>,
  <<"ꮑ", "Ꮑ">>, <<"ꮒ", "Ꮒ">>, <<"ꮓ", "Ꮓ">>, <<"ꮔ", "Ꮔ">>, <<"ꮕ", "Ꮕ">>, <<"ꮖ", "Ꮖ">>,
  <<"ꮗ", "Ꮗ">>, <<"ꮘ", "Ꮘ">>, <<"ꮙ", "Ꮙ">>, <<"ꮚ", "Ꮚ">>, <<"ꮛ", "Ꮛ">>, <<"ꮜ", "Ꮜ">>,
  <<"ꮝ", "Ꮝ">>, <<"ꮞ", "Ꮞ">>, <<"ꮟ", "Ꮟ">>, <<"ꮠ", "Ꮠ">>, <<"ꮡ", "Ꮡ">>, <<"ꮢ", "Ꮢ">>,
  <<"ꮣ", "Ꮣ">>, <<"ꮤ", "Ꮤ">>, <<"ꮥ", "Ꮥ">>, <<"ꮦ", "Ꮦ">>, <<"ꮧ", "Ꮧ">>, <<"ꮨ", "Ꮨ">>,
  <<"ꮩ", "Ꮩ">>, <<"ꮪ", "Ꮪ">>, <<"ꮫ", "Ꮫ">>, <<"ꮬ", "Ꮬ">>, <<"ꮭ", "Ꮭ">>, <<"ꮮ", "Ꮮ">>,
  <<"ꮯ", "Ꮯ">>, <<"ꮰ", "Ꮰ">>, <<"ꮱ", "Ꮱ">>, <<"ꮲ", "Ꮲ">>, <<"ꮳ", "Ꮳ">>, <<"ꮴ", "Ꮴ">>,
  <<"ꮵ", "Ꮵ">>, <<"ꮶ", "Ꮶ">>, <<"ꮷ", "Ꮷ">>, <<"ꮸ", "Ꮸ">>, <<"ꮹ", "Ꮹ">>, <<"ꮺ", "Ꮺ">>,
  <<"ꮻ", "Ꮻ">>, <<"ꮼ", "Ꮼ">>, <<"ꮽ", "Ꮽ">>, <<"ꮾ", "Ꮾ">>, <<"ꮿ", "Ꮿ">> >>

\* The characters str.upper changes whose upper case no string literal
\* holds: the upper case of these has no value here.
UpperUnwritable == {
  "ÿ", "ƀ", "ƚ", "ƞ", "ǰ", "ʉ", "ʌ", "ΐ", "ΰ", "ϳ", "ր", "ց", "ւ", "փ",
  "ք", "օ", "ֆ", "և", "ᲀ", "ᲁ", "ᲂ", "ᲃ", "ᲄ", "ᲅ", "ᲆ", "ᲇ", "ᲈ", "ẖ",
  "ẗ", "ẘ", "ẙ", "ẛ", "ᾀ", "ᾁ", "ᾂ", "ᾃ", "ᾄ", "ᾅ", "ᾆ", "ᾇ", "ᾈ", "ᾉ",
  "ᾊ", "ᾋ", "ᾌ", "ᾍ", "ᾎ", "ᾏ", "ᾐ", "ᾑ", "ᾒ", "ᾓ", "ᾔ", "ᾕ", "ᾖ", "ᾗ",
  "ᾘ", "ᾙ", "ᾚ", "ᾛ", "ᾜ", "ᾝ", "ᾞ", "ᾟ", "ᾠ", "ᾡ", "ᾢ", "ᾣ", "ᾤ", "ᾥ",
  "ᾦ", "ᾧ", "ᾨ", "ᾩ", "ᾪ", "ᾫ", "ᾬ", "ᾭ", "ᾮ", "ᾯ", "ᾶ", "ᾷ", "ῆ", "ῇ",
  "ῒ", "ΐ", "ῖ", "ῗ", "ῢ", "ΰ", "ῤ", "ῦ", "ῧ", "ῶ", "ῷ" }

\* The characters str.lower changes, <<character, lower case>>, in code
\* point order.
ToLowerFull == <<
  <<"A", "a">>, <<"B", "b">>, <<"C", "c">>, <<"D", "d">>, <<"E", "e">>, <<"F", "f">>,
  <<"G", "g">>, <<"H", "h">>, <<"I", "i">>, <<"J", "j">>, <<"K", "k">>, <<"L", "l">>,
  <<"M", "m">>, <<"N", "n">>, <<"O", "o">>, <<"P", "p">>, <<"Q", "q">>, <<"R", "r">>,
  <<"S", "s">>, <<"T", "t">>, <<"U", "u">>, <<"V", "v">>, <<"W", "w">>, <<"X", "x">>,
  <<"Y", "y">>, <<"Z", "z">>, <<"À", "à">>, <<"Á", "á">>, <<"Â", "â">>, <<"Ã", "ã">>,
  <<"Ä", "ä">>, <<"Å", "å">>, <<"Æ", "æ">>, <<"Ç", "ç">>, <<"È", "è">>, <<"É", "é">>,
  <<"Ê", "ê">>, <<"Ë", "ë">>, <<"Ì", "ì">>, <<"Í", "í">>, <<"Î", "î">>, <<"Ï", "ï">>,
  <<"Ð", "ð">>, <<"Ñ", "ñ">>, <<"Ò", "ò">>, <<"Ó", "ó">>, <<"Ô", "ô">>, <<"Õ", "õ">>,
  <<"Ö", "ö">>, <<"Ø", "ø">>, <<"Ù", "ù">>, <<"Ú", "ú">>, <<"Û", "û">>, <<"Ü", "ü">>,
  <<"Ý", "ý">>, <<"Þ", "þ">>, <<"Ƃ", "ƃ">>, <<"Ƅ", "ƅ">>, <<"Ƈ", "ƈ">>, <<"Ƌ", "ƌ">>,
  <<"Ǝ", "ǝ">>, <<"Ƒ", "ƒ">>, <<"Ƙ", "ƙ">>, <<"Ơ", "ơ">>, <<"Ƣ", "ƣ">>, <<"Ƥ", "ƥ">>,
  <<"Ʀ", "ʀ">>, <<"Ƨ", "ƨ">>, <<"Ʃ", "ʃ">>, <<"Ƭ", "ƭ">>, <<"Ʈ", "ʈ">>, <<"Ư", "ư">>,
  <<"Ʊ", "ʊ">>, <<"Ʋ", "ʋ">>, <<"Ƴ", "ƴ">>, <<"Ƶ", "ƶ">>, <<"Ʒ", "ʒ">>, <<"Ƹ", "ƹ">>,
  <<"Ƽ", "ƽ">>, <<"Ǆ", "ǆ">>, <<"ǅ", "ǆ">>, <<"Ǉ", "ǉ">>, <<"ǈ", "ǉ">>, <<"Ǌ", "ǌ">>,
  <<"ǋ", "ǌ">>, <<"Ǎ", "ǎ">>, <<"Ǐ", "ǐ">>, <<"Ǒ", "ǒ">>, <<"Ǔ", "ǔ">>, <<"Ǖ", "ǖ">>,
  <<"Ǘ", "ǘ">>, <<"Ǚ", "ǚ">>, <<"Ǜ", "ǜ">>, <<"Ǟ", "ǟ">>, <<"Ǡ", "ǡ">>, <<"Ǣ", "ǣ">>,
  <<"Ǥ", "ǥ">>, <<"Ǧ", "ǧ">>, <<"Ǩ", "ǩ">>, <<"Ǫ", "ǫ">>, <<"Ǭ", "ǭ">>, <<"Ǯ", "ǯ">>,
  <<"Ǳ", "ǳ">>, <<"ǲ", "ǳ">>, <<"Ǵ", "ǵ">>, <<"Ƕ", "ƕ">>, <<"Ƿ", "ƿ">>, <<"Ǹ", "ǹ">>,
  <<"Ǻ", "ǻ">>, <<"Ǽ", "ǽ">>, <<"Ǿ", "ǿ">>, <<"Ά", "ά">>, <<"Έ", "έ">>, <<"Ή", "ή">>,
  <<"Ί", "ί">>, <<"Ό", "ό">>, <<"Ύ", "ύ">>, <<"Ώ", "ώ">>, <<"Α", "α">>, <<"Β", "β">>,
  <<"Γ", "γ">>, <<"Δ", "δ">>, <<"Ε", "ε">>, <<"Ζ", "ζ">>, <<"Η", "η">>, <<"Θ", "θ">>,
  <<"Ι", "ι">>, <<"Κ", "κ">>, <<"Λ", "λ">>, <<"Μ", "μ">>, <<"Ν", "ν">>, <<"Ξ", "ξ">>,
  <<"Ο", "ο">>, <<"Π", "π">>, <<"Ρ", "ρ">>, <<"Σ", "σ">>, <<"Τ", "τ">>, <<"Υ", "υ">>,
  <<"Φ", "φ">>, <<"Χ", "χ">>, <<"Ψ", "ψ">>, <<"Ω", "ω">>, <<"Ϊ", "ϊ">>, <<"Ϋ", "ϋ">>,
  <<"Ϗ", "ϗ">>, <<"Ϙ", "ϙ">>, <<"Ϛ", "ϛ">>, <<"Ϝ", "ϝ">>, <<"Ϟ", "ϟ">>, <<"Ϡ", "ϡ">>,
  <<"Ϣ", "ϣ">>, <<"Ϥ", "ϥ">>, <<"Ϧ", "ϧ">>, <<"Ϩ", "ϩ">>, <<"Ϫ", "ϫ">>, <<"Ϭ", "ϭ">>,
  <<"Ϯ", "ϯ">>, <<"ϴ", "θ">>, <<"Ϸ", "ϸ">>, <<"Ϲ", "ϲ">>, <<"Ϻ", "ϻ">>, <<"Ҁ", "ҁ">>,
  <<"Ҋ", "ҋ">>, <<"Ҍ", "ҍ">>, <<"Ҏ", "ҏ">>, <<"Ґ", "ґ">>, <<"Ғ", "ғ">>, <<"Ҕ", "ҕ">>,
  <<"Җ", "җ">>, <<"Ҙ", "ҙ">>, <<"Қ", "қ">>, <<"Ҝ", "ҝ">>, <<"Ҟ", "ҟ">>, <<"Ҡ", "ҡ">>,
  <<"Ң", "ң">>, <<"Ҥ", "ҥ">>, <<"Ҧ", "ҧ">>, <<"Ҩ", "ҩ">>, <<"Ҫ", "ҫ">>, <<"Ҭ", "ҭ">>,
  <<"Ү", "ү">>, <<"Ұ", "ұ">>, <<"Ҳ", "ҳ">>, <<"Ҵ", "ҵ">>, <<"Ҷ", "ҷ">>, <<"Ҹ", "ҹ">>,
  <<"Һ", "һ">>, <<"Ҽ", "ҽ">>, <<"Ҿ", "ҿ">>, <<"Ӏ", "ӏ">>, <<"Ӂ", "ӂ">>, <<"Ӄ", "ӄ">>,
  <<"Ӆ", "ӆ">>, <<"Ӈ", "ӈ">>, <<"Ӊ", "ӊ">>, <<"Ӌ", "ӌ">>, <<"Ӎ", "ӎ">>, <<"Ӑ", "ӑ">>,
  <<"Ӓ", "ӓ">>, <<"Ӕ", "ӕ">>, <<"Ӗ", "ӗ">>, <<"Ә", "ә">>, <<"Ӛ", "ӛ">>, <<"Ӝ", "ӝ">>,
  <<"Ӟ", "ӟ">>, <<"Ӡ", "ӡ">>, <<"Ӣ", "ӣ">>, <<"Ӥ", "ӥ">>, <<"Ӧ", "ӧ">>, <<"Ө", "ө">>,
  <<"Ӫ", "ӫ">>, <<"Ӭ", "ӭ">>, <<"Ӯ", "ӯ">>, <<"Ӱ", "ӱ">>, <<"Ӳ", "ӳ">>, <<"Ӵ", "ӵ">>,
  <<"Ӷ", "ӷ">>, <<"Ӹ", "ӹ">>, <<"Ӻ", "ӻ">>, <<"Ӽ", "ӽ">>, <<"Ӿ", "ӿ">>, <<"Ꮀ", "ꮀ">>,
  <<"Ꮁ", "ꮁ">>, <<"Ꮂ", "ꮂ">>, <<"Ꮃ", "ꮃ">>, <<"Ꮄ", "ꮄ">>, <<"Ꮅ", "ꮅ">>, <<"Ꮆ", "ꮆ">>,
  <<"Ꮇ", "ꮇ">>, <<"Ꮈ", "ꮈ">>, <<"Ꮉ", "ꮉ">>, <<"Ꮊ", "ꮊ">>, <<"Ꮋ", "ꮋ">>, <<"Ꮌ", "ꮌ">>,
  <<"Ꮍ", "ꮍ">>, <<"Ꮎ", "ꮎ">>, <<"Ꮏ", "ꮏ">>, <<"Ꮐ", "ꮐ">>, <<"Ꮑ", "ꮑ">>, <<"Ꮒ", "ꮒ">>,
  <<"Ꮓ", "ꮓ">>, <<"Ꮔ", "ꮔ">>, <<"Ꮕ", "ꮕ">>, <<"Ꮖ", "ꮖ">>, <<"Ꮗ", "ꮗ">>, <<"Ꮘ", "ꮘ">>,
  <<"Ꮙ", "ꮙ">>, <<"Ꮚ", "ꮚ">>, <<"Ꮛ", "ꮛ">>, <<"Ꮜ", "ꮜ">>, <<"Ꮝ", "ꮝ">>, <<"Ꮞ", "ꮞ">>,
  <<"Ꮟ", "ꮟ">>, <<"Ꮠ", "ꮠ">>, <<"Ꮡ", "ꮡ">>, <<"Ꮢ", "ꮢ">>, <<"Ꮣ", "ꮣ">>, <<"Ꮤ", "ꮤ">>,
  <<"Ꮥ", "ꮥ">>, <<"Ꮦ", "ꮦ">>, <<"Ꮧ", "ꮧ">>, <<"Ꮨ", "ꮨ">>, <<"Ꮩ", "ꮩ">>, <<"Ꮪ", "ꮪ">>,
  <<"Ꮫ", "ꮫ">>, <<"Ꮬ", "ꮬ">>, <<"Ꮭ", "ꮭ">>, <<"Ꮮ", "ꮮ">>, <<"Ꮯ", "ꮯ">>, <<"Ꮰ", "ꮰ">>,
  <<"Ꮱ", "ꮱ">>, <<"Ꮲ", "ꮲ">>, <<"Ꮳ", "ꮳ">>, <<"Ꮴ", "ꮴ">>, <<"Ꮵ", "ꮵ">>, <<"Ꮶ", "ꮶ">>,
  <<"Ꮷ", "ꮷ">>, <<"Ꮸ", "ꮸ">>, <<"Ꮹ", "ꮹ">>, <<"Ꮺ", "ꮺ">>, <<"Ꮻ", "ꮻ">>, <<"Ꮼ", "ꮼ">>,
  <<"Ꮽ", "ꮽ">>, <<"Ꮾ", "ꮾ">>, <<"Ꮿ", "ꮿ">>, <<"Ᏸ", "ᏸ">>, <<"Ᏹ", "ᏹ">>, <<"Ᏺ", "ᏺ">>,
  <<"Ᏻ", "ᏻ">>, <<"Ᏼ", "ᏼ">>, <<"Ᏽ", "ᏽ">>, <<"Ა", "ა">>, <<"Ბ", "ბ">>, <<"Გ", "გ">>,
  <<"Დ", "დ">>, <<"Ე", "ე">>, <<"Ვ", "ვ">>, <<"Ზ", "ზ">>, <<"Თ", "თ">>, <<"Ი", "ი">>,
  <<"Კ", "კ">>, <<"Ლ", "ლ">>, <<"Მ", "მ">>, <<"Ნ", "ნ">>, <<"Ო", "ო">>, <<"Პ", "პ">>,
  <<"Ჟ", "ჟ">>, <<"Რ", "რ">>, <<"Ს", "ს">>, <<"Ტ", "ტ">>, <<"Უ", "უ">>, <<"Ფ", "ფ">>,
  <<"Ქ", "ქ">>, <<"Ღ", "ღ">>, <<"Ყ", "ყ">>, <<"Შ", "შ">>, <<"Ჩ", "ჩ">>, <<"Ც", "ც">>,
  <<"Ძ", "ძ">>, <<"Წ", "წ">>, <<"Ჭ", "ჭ">>, <<"Ხ", "ხ">>, <<"Ჯ", "ჯ">>, <<"Ჰ", "ჰ">>,
  <<"Ჱ", "ჱ">>, <<"Ჲ", "ჲ">>, <<"Ჳ", "ჳ">>, <<"Ჴ", "ჴ">>, <<"Ჵ", "ჵ">>, <<"Ჶ", "ჶ">>,
  <<"Ჷ", "ჷ">>, <<"Ჸ", "ჸ">>, <<"Ჹ", "ჹ">>, <<"Ჺ", "ჺ">>, <<"Ჽ", "ჽ">>, <<"Ჾ", "ჾ">>,
  <<"Ჿ", "ჿ">>, <<"Ẁ", "ẁ">>, <<"Ẃ", "ẃ">>, <<"Ẅ", "ẅ">>, <<"Ẇ", "ẇ">>, <<"Ẉ", "ẉ">>,
  <<"Ẋ", "ẋ">>, <<"Ẍ", "ẍ">>, <<"Ẏ", "ẏ">>, <<"Ẑ", "ẑ">>, <<"Ẓ", "ẓ">>, <<"Ẕ", "ẕ">>,
  <<"ẞ", "ß">>, <<"Ạ", "ạ">>, <<"Ả", "ả">>, <<"Ấ", "ấ">>, <<"Ầ", "ầ">>, <<"Ẩ", "ẩ">>,
  <<"Ẫ", "ẫ">>, <<"Ậ", "ậ">>, <<"Ắ", "ắ">>, <<"Ằ", "ằ">>, <<"Ẳ", "ẳ">>, <<"Ẵ", "ẵ">>,
  <<"Ặ", "ặ">>, <<"Ẹ", "ẹ">>, <<"Ẻ", "ẻ">>, <<"Ẽ", "ẽ">>, <<"Ế", "ế">>, <<"Ề", "ề">>,
  <<"Ể", "ể">>, <<"Ễ", "ễ">>, <<"Ệ", "ệ">>, <<"Ỉ", "ỉ">>, <<"Ị", "ị">>, <<"Ọ", "ọ">>,
  <<"Ỏ", "ỏ">>, <<"Ố", "ố">>, <<"Ồ", "ồ">>, <<"Ổ", "ổ">>, <<"Ỗ", "ỗ">>, <<"Ộ", "ộ">>,
  <<"Ớ", "ớ">>, <<"Ờ", "ờ">>, <<"Ở", "ở">>, <<"Ỡ", "ỡ">>, <<"Ợ", "ợ">>, <<"Ụ", "ụ">>,
  <<"Ủ", "ủ">>, <<"Ứ", "ứ">>, <<"Ừ", "ừ">>, <<"Ử", "ử">>, <<"Ữ", "ữ">>, <<"Ự", "ự">>,
  <<"Ỳ", "ỳ">>, <<"Ỵ", "ỵ">>, <<"Ỷ", "ỷ">>, <<"Ỹ", "ỹ">>, <<"Ỻ", "ỻ">>, <<"Ỽ", "ỽ">>,
  <<"Ỿ", "ỿ">>, <<"ᾈ", "ᾀ">>, <<"ᾉ", "ᾁ">>, <<"ᾊ", "ᾂ">>, <<"ᾋ", "ᾃ">>, <<"ᾌ", "ᾄ">>,
  <<"ᾍ", "ᾅ">>, <<"ᾎ", "ᾆ">>, <<"ᾏ", "ᾇ">>, <<"ᾘ", "ᾐ">>, <<"ᾙ", "ᾑ">>, <<"ᾚ", "ᾒ">>,
  <<"ᾛ", "ᾓ">>, <<"ᾜ", "ᾔ">>, <<"ᾝ", "ᾕ">>, <<"ᾞ", "ᾖ">>, <<"ᾟ", "ᾗ">>, <<"ᾨ", "ᾠ">>,
  <<"ᾩ", "ᾡ">>, <<"ᾪ", "ᾢ">>, <<"ᾫ", "ᾣ">>, <<"ᾬ", "ᾤ">>, <<"ᾭ", "ᾥ">>, <<"ᾮ", "ᾦ">>,
  <<"ᾯ", "ᾧ">>, <<"Ᾰ", "ᾰ">>, <<"Ᾱ", "ᾱ">>, <<"ᾼ", "ᾳ">>, <<"ῌ", "ῃ">>, <<"Ῐ", "ῐ">>,
  <<"Ῑ", "ῑ">>, <<"Ῠ", "ῠ">>, <<"Ῡ", "ῡ">>, <<"Ῥ", "ῥ">>, <<"ῼ", "ῳ">>, <<"Ↄ", "ↄ">>,
  <<"Ⓐ", "ⓐ">>, <<"Ⓑ", "ⓑ">>, <<"Ⓒ", "ⓒ">>, <<"Ⓓ", "ⓓ">>, <<"Ⓔ", "ⓔ">>, <<"Ⓕ", "ⓕ">>,
  <<"Ⓖ", "ⓖ">>, <<"Ⓗ", "ⓗ">>, <<"Ⓘ", "ⓘ">>, <<"Ⓙ", "ⓙ">>, <<"Ⓚ", "ⓚ">>, <<"Ⓛ", "ⓛ">>,
  <<"Ⓜ", "ⓜ">>, <<"Ⓝ", "ⓝ">>, <<"Ⓞ", "ⓞ">>, <<"Ⓟ", "ⓟ">>, <<"Ⓠ", "ⓠ">>, <<"Ⓡ", "ⓡ">>,
  <<"Ⓢ", "ⓢ">>, <<"Ⓣ", "ⓣ">>, <<"Ⓤ", "ⓤ">>, <<"Ⓥ", "ⓥ">>, <<"Ⓦ", "ⓦ">>, <<"Ⓧ", "ⓧ">>,
  <<"Ⓨ", "ⓨ">>, <<"Ⓩ", "ⓩ">>, <<"Ⲁ", "ⲁ">>, <<"Ⲃ", "ⲃ">>, <<"Ⲅ", "ⲅ">>, <<"Ⲇ", "ⲇ">>,
  <<"Ⲉ", "ⲉ">>, <<"Ⲋ", "ⲋ">>, <<"Ⲍ", "ⲍ">>, <<"Ⲏ", "ⲏ">>, <<"Ⲑ", "ⲑ">>, <<"Ⲓ", "ⲓ">>,
  <<"Ⲕ", "ⲕ">>, <<"Ⲗ", "ⲗ">>, <<"Ⲙ", "ⲙ">>, <<"Ⲛ", "ⲛ">>, <<"Ⲝ", "ⲝ">>, <<"Ⲟ", "ⲟ">>,
  <<"Ⲡ", "ⲡ">>, <<"Ⲣ", "ⲣ">>, <<"Ⲥ", "ⲥ">>, <<"Ⲧ", "ⲧ">>, <<"Ⲩ", "ⲩ">>, <<"Ⲫ", "ⲫ">>,
  <<"Ⲭ", "ⲭ">>, <<"Ⲯ", "ⲯ">>, <<"Ⲱ", "ⲱ">>, <<"Ⲳ", "ⲳ">>, <<"Ⲵ", "ⲵ">>, <<"Ⲷ", "ⲷ">>,
  <<"Ⲹ", "ⲹ">>, <<"Ⲻ", "ⲻ">>, <<"Ⲽ", "ⲽ">>, <<"Ⲿ", "ⲿ">>, <<"Ⳁ", "ⳁ">>, <<"Ⳃ", "ⳃ">>,
  <<"Ⳅ", "ⳅ">>, <<"Ⳇ", "ⳇ">>, <<"Ⳉ", "ⳉ">>, <<"Ⳋ", "ⳋ">>, <<"Ⳍ", "ⳍ">>, <<"Ⳏ", "ⳏ">>,
  <<"Ⳑ", "ⳑ">>, <<"Ⳓ", "ⳓ">>, <<"Ⳕ", "ⳕ">>, <<"Ⳗ", "ⳗ">>, <<"Ⳙ", "ⳙ">>, <<"Ⳛ", "ⳛ">>,
  <<"Ⳝ", "ⳝ">>, <<"Ⳟ", "ⳟ">>, <<"Ⳡ", "ⳡ">>, <<"Ⳣ", "ⳣ">>, <<"Ⳬ", "ⳬ">>, <<"Ⳮ", "ⳮ">>,
  <<"Ⳳ", "ⳳ">>, <<"Ꚁ", "ꚁ">>, <<"Ꚃ", "ꚃ">>, <<"Ꚅ", "ꚅ">>, <<"Ꚇ", "ꚇ">>, <<"Ꚉ", "ꚉ">>,
  <<"Ꚋ", "ꚋ">>, <<"Ꚍ", "ꚍ">>, <<"Ꚏ", "ꚏ">>, <<"Ꚑ", "ꚑ">>, <<"Ꚓ", "ꚓ">>, <<"Ꚕ", "ꚕ">>,
  <<"Ꚗ", "ꚗ">>, <<"Ꚙ", "ꚙ">>, <<"Ꚛ", "ꚛ">>, <<"Ꞁ", "ꞁ">>, <<"Ꞃ", "ꞃ">>, <<"Ꞅ", "ꞅ">>,
  <<"Ꞇ", "ꞇ">>, <<"Ꞌ", "ꞌ">>, <<"Ꞑ", "ꞑ">>, <<"Ꞓ", "ꞓ">>, <<"Ꞗ", "ꞗ">>, <<"Ꞙ", "ꞙ">>,
  <<"Ꞛ", "ꞛ">>, <<"Ꞝ", "ꞝ">>, <<"Ꞟ", "ꞟ">>, <<"Ꞡ", "ꞡ">>, <<"Ꞣ", "ꞣ">>, <<"Ꞥ", "ꞥ">>,
  <<"Ꞧ", "ꞧ">>, <<"Ꞩ", "ꞩ">>, <<"Ʞ", "ʞ">>, <<"Ʇ", "ʇ">>, <<"Ʝ", "ʝ">>, <<"Ꞵ", "ꞵ">>,
  <<"Ꞷ", "ꞷ">>, <<"Ꞹ", "ꞹ">>, <<"Ꞻ", "ꞻ">>, <<"Ꞽ", "ꞽ">>, <<"Ꞿ", "ꞿ">>, <<"Ꟁ", "ꟁ">>,
  <<"Ꟃ", "ꟃ">>, <<"Ꞔ", "ꞔ">>, <<"Ʂ", "ʂ">>, <<"Ᶎ", "ᶎ">>, <<"Ꟈ", "ꟈ">>, <<"Ꟊ", "ꟊ">>,
  <<"Ꟑ", "ꟑ">>, <<"Ꟗ", "ꟗ">>, <<"Ꟙ", "ꟙ">>, <<"Ꟶ", "ꟶ">> >>

\* The characters str.lower changes whose lower case no string literal
\* holds: the lower case of these has no value here.
LowerUnwritable == {
  "Ɓ", "Ɔ", "Ɖ", "Ɗ", "Ə", "Ɛ", "Ɠ", "Ɣ", "Ɩ", "Ɨ", "Ɯ", "Ɲ", "Ɵ", "Ͻ",
  "Ͼ", "Ͽ", "Ⴀ", "Ⴁ", "Ⴂ", "Ⴃ", "Ⴄ", "Ⴅ", "Ⴆ", "Ⴇ", "Ⴈ", "Ⴉ", "Ⴊ", "Ⴋ",
  "Ⴌ", "Ⴍ", "Ⴎ", "Ⴏ", "Ⴐ", "Ⴑ", "Ⴒ", "Ⴓ", "Ⴔ", "Ⴕ", "Ⴖ", "Ⴗ", "Ⴘ", "Ⴙ",
  "Ⴚ", "Ⴛ", "Ⴜ", "Ⴝ", "Ⴞ", "Ⴟ", "Ⴠ", "Ⴡ", "Ⴢ", "Ⴣ", "Ⴤ", "Ⴥ", "Ⴧ", "Ⴭ",
  "Ꭰ", "Ꭱ", "Ꭲ", "Ꭳ", "Ꭴ", "Ꭵ", "Ꭶ", "Ꭷ", "Ꭸ", "Ꭹ", "Ꭺ", "Ꭻ", "Ꭼ", "Ꭽ",
  "Ꭾ", "Ꭿ", "Ὰ", "Ά", "Ὲ", "Έ", "Ὴ", "Ή", "Ὶ", "Ί", "Ὺ", "Ύ", "Ὸ", "Ό",
  "Ὼ", "Ώ", "Ɥ", "Ɦ", "Ɜ", "Ɡ", "Ɬ", "Ɪ", "Ꭓ" }

\* The characters with the property Cased.
Cased == {
  "A", "B", "C", "D", "E", "F", "G", "H", "I", "J", "K", "L", "M", "N",
  "O", "P", "Q", "R", "S", "T", "U", "V", "W", "X", "Y", "Z", "a", "b",
  "c", "d", "e", "f", "g", "h", "i", "j", "k", "l", "m", "n", "o", "p",
  "q", "r", "s", "t", "u", "v", "w", "x", "y", "z", "ª", "µ", "º", "À",
  "Á", "Â", "Ã", "Ä", "Å", "Æ", "Ç", "È", "É", "Ê", "Ë", "Ì", "Í", "Î",
  "Ï", "Ð", "Ñ", "Ò", "Ó", "Ô", "Õ", "Ö", "Ø", "Ù", "Ú", "Û", "Ü", "Ý",
  "Þ", "ß", "à", "á", "â", "ã", "ä", "å", "æ", "ç", "è", "é", "ê", "ë",
  "ì", "í", "î", "ï", "ð", "ñ", "ò", "ó", "ô", "õ", "ö", "ø", "ù", "ú",
  "û", "ü", "ý", "þ", "ÿ", "ƀ", "Ɓ", "Ƃ", "ƃ", "Ƅ", "ƅ", "Ɔ", "Ƈ", "ƈ",
  "Ɖ", "Ɗ", "Ƌ", "ƌ", "ƍ", "Ǝ", "Ə", "Ɛ", "Ƒ", "ƒ", "Ɠ", "Ɣ", "ƕ", "Ɩ",
  "Ɨ", "Ƙ", "ƙ", "ƚ", "ƛ", "Ɯ", "Ɲ", "ƞ", "Ɵ", "Ơ", "ơ", "Ƣ", "ƣ", "Ƥ",
  "ƥ", "Ʀ", "Ƨ", "ƨ", "Ʃ", "ƪ", "ƫ", "Ƭ", "ƭ", "Ʈ", "Ư", "ư", "Ʊ", "Ʋ",
  "Ƴ", "ƴ", "Ƶ", "ƶ", "Ʒ", "Ƹ", "ƹ", "ƺ", "Ƽ", "ƽ", "ƾ", "ƿ", "Ǆ", "ǅ",
  "ǆ", "Ǉ", "ǈ", "ǉ", "Ǌ", "ǋ", "ǌ", "Ǎ", "ǎ", "Ǐ", "ǐ", "Ǒ", "ǒ", "Ǔ",
  "ǔ", "Ǖ", "ǖ", "Ǘ", "ǘ", "Ǚ", "ǚ", "Ǜ", "ǜ", "ǝ", "Ǟ", "ǟ", "Ǡ", "ǡ",
  "Ǣ", "ǣ", "Ǥ", "ǥ", "Ǧ", "ǧ", "Ǩ", "ǩ", "Ǫ", "ǫ", "Ǭ", "ǭ", "Ǯ", "ǯ",
  "ǰ", "Ǳ", "ǲ", "ǳ", "Ǵ", "ǵ", "Ƕ", "Ƿ", "Ǹ", "ǹ", "Ǻ", "ǻ", "Ǽ", "ǽ",
  "Ǿ", "ǿ", "ʀ", "ʁ", "ʂ", "ʃ", "ʄ", "ʅ", "ʆ", "ʇ", "ʈ", "ʉ", "ʊ", "ʋ",
  "ʌ", "ʍ", "ʎ", "ʏ", "ʐ", "ʑ", "ʒ", "ʓ", "ʕ", "ʖ", "ʗ", "ʘ", "ʙ", "ʚ",
  "ʛ", "ʜ", "ʝ", "ʞ", "ʟ", "ʠ", "ʡ", "ʢ", "ʣ", "ʤ", "ʥ", "ʦ", "ʧ", "ʨ",
  "ʩ", "ʪ", "ʫ", "ʬ", "ʭ", "ʮ", "ʯ", "ʰ", "ʱ", "ʲ", "ʳ", "ʴ", "ʵ", "ʶ",
  "ʷ", "ʸ", "ˀ", "ˁ", "ˠ", "ˡ", "ˢ", "ˣ", "ˤ", "Ά", "Έ", "Ή", "Ί", "Ό",
  "Ύ", "Ώ", "ΐ", "Α", "Β", "Γ", "Δ", "Ε", "Ζ", "Η", "Θ", "Ι", "Κ", "Λ",
  "Μ", "Ν", "Ξ", "Ο", "Π", "Ρ", "Σ", "Τ", "Υ", "Φ", "Χ", "Ψ", "Ω", "Ϊ",
  "Ϋ", "ά", "έ", "ή", "ί", "ΰ", "α", "β", "γ", "δ", "ε", "ζ", "η", "θ",
  "ι", "κ", "λ", "μ", "ν", "ξ", "ο", "π", "ρ", "ς", "σ", "τ", "υ", "φ",
  "χ", "ψ", "ω", "ϊ", "ϋ", "ό", "ύ", "ώ", "Ϗ", "ϐ", "ϑ", "ϒ", "ϓ", "ϔ",
  "ϕ", "ϖ", "ϗ", "Ϙ", "ϙ", "Ϛ", "ϛ", "Ϝ", "ϝ", "Ϟ", "ϟ", "Ϡ", "ϡ", "Ϣ",
  "ϣ", "Ϥ", "ϥ", "Ϧ", "ϧ", "Ϩ", "ϩ", "Ϫ", "ϫ", "Ϭ", "ϭ", "Ϯ", "ϯ", "ϰ",
  "ϱ", "ϲ", "ϳ", "ϴ", "ϵ", "Ϸ", "ϸ", "Ϲ", "Ϻ", "ϻ", "ϼ", "Ͻ", "Ͼ", "Ͽ",
  "Ҁ", "ҁ", "Ҋ", "ҋ", "Ҍ", "ҍ", "Ҏ", "ҏ", "Ґ", "ґ", "Ғ", "ғ", "Ҕ", "ҕ",
  "Җ", "җ", "Ҙ", "ҙ", "Қ", "қ", "Ҝ", "ҝ", "Ҟ", "ҟ", "Ҡ", "ҡ", "Ң", "ң",
  "Ҥ", "ҥ", "Ҧ", "ҧ", "Ҩ", "ҩ", "Ҫ", "ҫ", "Ҭ", "ҭ", "Ү", "ү", "Ұ", "ұ",
  "Ҳ", "ҳ", "Ҵ", "ҵ", "Ҷ", "ҷ", "Ҹ", "ҹ", "Һ", "һ", "Ҽ", "ҽ", "Ҿ", "ҿ",
  "Ӏ", "Ӂ", "ӂ", "Ӄ", "ӄ", "Ӆ", "ӆ", "Ӈ", "ӈ", "Ӊ", "ӊ", "Ӌ", "ӌ", "Ӎ",
  "ӎ", "ӏ", "Ӑ", "ӑ", "Ӓ", "ӓ", "Ӕ", "ӕ", "Ӗ", "ӗ", "Ә", "ә", "Ӛ", "ӛ",
  "Ӝ", "ӝ", "Ӟ", "ӟ", "Ӡ", "ӡ", "Ӣ", "ӣ", "Ӥ", "ӥ", "Ӧ", "ӧ", "Ө", "ө",
  "Ӫ", "ӫ", "Ӭ", "ӭ", "Ӯ", "ӯ", "Ӱ", "ӱ", "Ӳ", "ӳ", "Ӵ", "ӵ", "Ӷ", "ӷ",
  "Ӹ", "ӹ", "Ӻ", "ӻ", "Ӽ", "ӽ", "Ӿ", "ӿ", "ր", "ց", "ւ", "փ", "ք", "օ",
  "ֆ", "և", "ֈ", "Ⴀ", "Ⴁ", "Ⴂ", "Ⴃ", "Ⴄ", "Ⴅ", "Ⴆ", "Ⴇ", "Ⴈ", "Ⴉ", "Ⴊ",
  "Ⴋ", "Ⴌ", "Ⴍ", "Ⴎ", "Ⴏ", "Ⴐ", "Ⴑ", "Ⴒ", "Ⴓ", "Ⴔ", "Ⴕ", "Ⴖ", "Ⴗ", "Ⴘ",
  "Ⴙ", "Ⴚ", "Ⴛ", "Ⴜ", "Ⴝ", "Ⴞ", "Ⴟ", "Ⴠ", "Ⴡ", "Ⴢ", "Ⴣ", "Ⴤ", "Ⴥ", "Ⴧ",
  "Ⴭ", "ა", "ბ", "გ", "დ", "ე", "ვ", "ზ", "თ", "ი", "კ", "ლ", "მ", "ნ",
  "ო", "პ", "ჟ", "რ", "ს", "ტ", "უ", "ფ", "ქ", "ღ", "ყ", "შ", "ჩ", "ც",
  "ძ", "წ", "ჭ", "ხ", "ჯ", "ჰ", "ჱ", "ჲ", "ჳ", "ჴ", "ჵ", "ჶ", "ჷ", "ჸ",
  "ჹ", "ჺ", "ჽ", "ჾ", "ჿ", "Ꭰ", "Ꭱ", "Ꭲ", "Ꭳ", "Ꭴ", "Ꭵ", "Ꭶ", "Ꭷ", "Ꭸ",
  "Ꭹ", "Ꭺ", "Ꭻ", "Ꭼ", "Ꭽ", "Ꭾ", "Ꭿ", "Ꮀ", "Ꮁ", "Ꮂ", "Ꮃ", "Ꮄ", "Ꮅ", "Ꮆ",
  "Ꮇ", "Ꮈ", "Ꮉ", "Ꮊ", "Ꮋ", "Ꮌ", "Ꮍ", "Ꮎ", "Ꮏ", "Ꮐ", "Ꮑ", "Ꮒ", "Ꮓ", "Ꮔ",
  "Ꮕ", "Ꮖ", "Ꮗ", "Ꮘ", "Ꮙ", "Ꮚ", "Ꮛ", "Ꮜ", "Ꮝ", "Ꮞ", "Ꮟ", "Ꮠ", "Ꮡ", "Ꮢ",
  "Ꮣ", "Ꮤ", "Ꮥ", "Ꮦ", "Ꮧ", "Ꮨ", "Ꮩ", "Ꮪ", "Ꮫ", "Ꮬ", "Ꮭ", "Ꮮ", "Ꮯ", "Ꮰ",
  "Ꮱ", "Ꮲ", "Ꮳ", "Ꮴ", "Ꮵ", "Ꮶ", "Ꮷ", "Ꮸ", "Ꮹ", "Ꮺ", "Ꮻ", "Ꮼ", "Ꮽ", "Ꮾ",
  "Ꮿ", "Ᏸ", "Ᏹ", "Ᏺ", "Ᏻ", "Ᏼ", "Ᏽ", "ᏸ", "ᏹ", "ᏺ", "ᏻ", "ᏼ", "ᏽ", "ᲀ",
  "ᲁ", "ᲂ", "ᲃ", "ᲄ", "ᲅ", "ᲆ", "ᲇ", "ᲈ", "Ა", "Ბ", "Გ", "Დ", "Ე", "Ვ",
  "Ზ", "Თ", "Ი", "Კ", "Ლ", "Მ", "Ნ", "Ო", "Პ", "Ჟ", "Რ", "Ს", "Ტ", "Უ",
  "Ფ", "Ქ", "Ღ", "Ყ", "Შ", "Ჩ", "Ც", "Ძ", "Წ", "Ჭ", "Ხ", "Ჯ", "Ჰ", "Ჱ",
  "Ჲ", "Ჳ", "Ჴ", "Ჵ", "Ჶ", "Ჷ", "Ჸ", "Ჹ", "Ჺ", "Ჽ", "Ჾ", "Ჿ", "ᶀ", "ᶁ",
  "ᶂ", "ᶃ", "ᶄ", "ᶅ", "ᶆ", "ᶇ", "ᶈ", "ᶉ", "ᶊ", "ᶋ", "ᶌ", "ᶍ", "ᶎ", "ᶏ",
  "ᶐ", "ᶑ", "ᶒ", "ᶓ", "ᶔ", "ᶕ", "ᶖ", "ᶗ", "ᶘ", "ᶙ", "ᶚ", "ᶛ", "ᶜ", "ᶝ",
  "ᶞ", "ᶟ", "ᶠ", "ᶡ", "ᶢ", "ᶣ", "ᶤ", "ᶥ", "ᶦ", "ᶧ", "ᶨ", "ᶩ", "ᶪ", "ᶫ",
  "ᶬ", "ᶭ", "ᶮ", "ᶯ", "ᶰ", "ᶱ", "ᶲ", "ᶳ", "ᶴ", "ᶵ", "ᶶ", "ᶷ", "ᶸ", "ᶹ",
  "ᶺ", "ᶻ", "ᶼ", "ᶽ", "ᶾ", "ᶿ", "Ẁ", "ẁ", "Ẃ", "ẃ", "Ẅ", "ẅ", "Ẇ", "ẇ",
  "Ẉ", "ẉ", "Ẋ", "ẋ", "Ẍ", "ẍ", "Ẏ", "ẏ", "Ẑ", "ẑ", "Ẓ", "ẓ", "Ẕ", "ẕ",
  "ẖ", "ẗ", "ẘ", "ẙ", "ẚ", "ẛ", "ẜ", "ẝ", "ẞ", "ẟ", "Ạ", "ạ", "Ả", "ả",
  "Ấ", "ấ", "Ầ", "ầ", "Ẩ", "ẩ", "Ẫ", "ẫ", "Ậ", "ậ", "Ắ", "ắ", "Ằ", "ằ",
  "Ẳ", "ẳ", "Ẵ", "ẵ", "Ặ", "ặ", "Ẹ", "ẹ", "Ẻ", "ẻ", "Ẽ", "ẽ", "Ế", "ế",
  "Ề", "ề", "Ể", "ể", "Ễ", "ễ", "Ệ", "ệ", "Ỉ", "ỉ", "Ị", "ị", "Ọ", "ọ",
  "Ỏ", "ỏ", "Ố", "ố", "Ồ", "ồ", "Ổ", "ổ", "Ỗ", "ỗ", "Ộ", "ộ", "Ớ", "ớ",
  "Ờ", "ờ", "Ở", "ở", "Ỡ", "ỡ", "Ợ", "ợ", "Ụ", "ụ", "Ủ", "ủ", "Ứ", "ứ",
  "Ừ", "ừ", "Ử", "ử", "Ữ", "ữ", "Ự", "ự", "Ỳ", "ỳ", "Ỵ", "ỵ", "Ỷ", "ỷ",
  "Ỹ", "ỹ", "Ỻ", "ỻ", "Ỽ", "ỽ", "Ỿ", "ỿ", "ᾀ", "ᾁ", "ᾂ", "ᾃ", "ᾄ", "ᾅ",
  "ᾆ", "ᾇ", "ᾈ", "ᾉ", "ᾊ", "ᾋ", "ᾌ", "ᾍ", "ᾎ", "ᾏ", "ᾐ", "ᾑ", "ᾒ", "ᾓ",
  "ᾔ", "ᾕ", "ᾖ", "ᾗ", "ᾘ", "ᾙ", "ᾚ", "ᾛ", "ᾜ", "ᾝ", "ᾞ", "ᾟ", "ᾠ", "ᾡ",
  "ᾢ", "ᾣ", "ᾤ", "ᾥ", "ᾦ", "ᾧ", "ᾨ", "ᾩ", "ᾪ", "ᾫ", "ᾬ", "ᾭ", "ᾮ", "ᾯ",
  "ᾰ", "ᾱ", "ᾲ", "ᾳ", "ᾴ", "ᾶ", "ᾷ", "Ᾰ", "Ᾱ", "Ὰ", "Ά", "ᾼ", "ι", "ῂ",
  "ῃ", "ῄ", "ῆ", "ῇ", "Ὲ", "Έ", "Ὴ", "Ή", "ῌ", "ῐ", "ῑ", "ῒ", "ΐ", "ῖ",
  "ῗ", "Ῐ", "Ῑ", "Ὶ", "Ί", "ῠ", "ῡ", "ῢ", "ΰ", "ῤ", "ῥ", "ῦ", "ῧ", "Ῠ",
  "Ῡ", "Ὺ", "Ύ", "Ῥ", "ῲ", "ῳ", "ῴ", "ῶ", "ῷ", "Ὸ", "Ό", "Ὼ", "Ώ", "ῼ",
  "ₐ", "ₑ", "ₒ", "ₓ", "ₔ", "ₕ", "ₖ", "ₗ", "ₘ", "ₙ", "ₚ", "ₛ", "ₜ", "Ↄ",
  "ↄ", "Ⓐ", "Ⓑ", "Ⓒ", "Ⓓ", "Ⓔ", "Ⓕ", "Ⓖ", "Ⓗ", "Ⓘ", "Ⓙ", "Ⓚ", "Ⓛ", "Ⓜ",
  "Ⓝ", "Ⓞ", "Ⓟ", "Ⓠ", "Ⓡ", "Ⓢ", "Ⓣ", "Ⓤ", "Ⓥ", "Ⓦ", "Ⓧ", "Ⓨ", "Ⓩ", "ⓐ",
  "ⓑ", "ⓒ", "ⓓ", "ⓔ", "ⓕ", "ⓖ", "ⓗ", "ⓘ", "ⓙ", "ⓚ", "ⓛ", "ⓜ", "ⓝ", "ⓞ",
  "ⓟ", "ⓠ", "ⓡ", "ⓢ", "ⓣ", "ⓤ", "ⓥ", "ⓦ", "ⓧ", "ⓨ", "ⓩ", "Ⲁ", "ⲁ", "Ⲃ",
  "ⲃ", "Ⲅ", "ⲅ", "Ⲇ", "ⲇ", "Ⲉ", "ⲉ", "Ⲋ", "ⲋ", "Ⲍ", "ⲍ", "Ⲏ", "ⲏ", "Ⲑ",
  "ⲑ", "Ⲓ", "ⲓ", "Ⲕ", "ⲕ", "Ⲗ", "ⲗ", "Ⲙ", "ⲙ", "Ⲛ", "ⲛ", "Ⲝ", "ⲝ", "Ⲟ",
  "ⲟ", "Ⲡ", "ⲡ", "Ⲣ", "ⲣ", "Ⲥ", "ⲥ", "Ⲧ", "ⲧ", "Ⲩ", "ⲩ", "Ⲫ", "ⲫ", "Ⲭ",
  "ⲭ", "Ⲯ", "ⲯ", "Ⲱ", "ⲱ", "Ⲳ", "ⲳ", "Ⲵ", "ⲵ", "Ⲷ", "ⲷ", "Ⲹ", "ⲹ", "Ⲻ",
  "ⲻ", "Ⲽ", "ⲽ", "Ⲿ", "ⲿ", "Ⳁ", "ⳁ", "Ⳃ", "ⳃ", "Ⳅ", "ⳅ", "Ⳇ", "ⳇ", "Ⳉ",
  "ⳉ", "Ⳋ", "ⳋ", "Ⳍ", "ⳍ", "Ⳏ", "ⳏ", "Ⳑ", "ⳑ", "Ⳓ", "ⳓ", "Ⳕ", "ⳕ", "Ⳗ",
  "ⳗ", "Ⳙ", "ⳙ", "Ⳛ", "ⳛ", "Ⳝ", "ⳝ", "Ⳟ", "ⳟ", "Ⳡ", "ⳡ", "Ⳣ", "ⳣ", "ⳤ",
  "Ⳬ", "ⳬ", "Ⳮ", "ⳮ", "Ⳳ", "ⳳ", "Ꚁ", "ꚁ", "Ꚃ", "ꚃ", "Ꚅ", "ꚅ", "Ꚇ", "ꚇ",
  "Ꚉ", "ꚉ", "Ꚋ", "ꚋ", "Ꚍ", "ꚍ", "Ꚏ", "ꚏ", "Ꚑ", "ꚑ", "Ꚓ", "ꚓ", "Ꚕ", "ꚕ",
  "Ꚗ", "ꚗ", "Ꚙ", "ꚙ", "Ꚛ", "ꚛ", "ꚜ", "ꚝ", "Ꞁ", "ꞁ", "Ꞃ", "ꞃ", "Ꞅ", "ꞅ",
  "Ꞇ", "ꞇ", "Ꞌ", "ꞌ", "Ɥ", "ꞎ", "Ꞑ", "ꞑ", "Ꞓ", "ꞓ", "ꞔ", "ꞕ", "Ꞗ", "ꞗ",
  "Ꞙ", "ꞙ", "Ꞛ", "ꞛ", "Ꞝ", "ꞝ", "Ꞟ", "ꞟ", "Ꞡ", "ꞡ", "Ꞣ", "ꞣ", "Ꞥ", "ꞥ",
  "Ꞧ", "ꞧ", "Ꞩ", "ꞩ", "Ɦ", "Ɜ", "Ɡ", "Ɬ", "Ɪ", "ꞯ", "Ʞ", "Ʇ", "Ʝ", "Ꭓ",
  "Ꞵ", "ꞵ", "Ꞷ", "ꞷ", "Ꞹ", "ꞹ", "Ꞻ", "ꞻ", "Ꞽ", "ꞽ", "Ꞿ", "ꞿ", "Ꟁ", "ꟁ",
  "Ꟃ", "ꟃ", "Ꞔ", "Ʂ", "Ᶎ", "Ꟈ", "ꟈ", "Ꟊ", "ꟊ", "Ꟑ", "ꟑ", "ꟓ", "ꟕ", "Ꟗ",
  "ꟗ", "Ꟙ", "ꟙ", "Ꟶ", "ꟶ", "ꟸ", "ꟹ", "ꟺ", "ꮀ", "ꮁ", "ꮂ", "ꮃ", "ꮄ", "ꮅ",
  "ꮆ", "ꮇ", "ꮈ", "ꮉ", "ꮊ", "ꮋ", "ꮌ", "ꮍ", "ꮎ", "ꮏ", "ꮐ", "ꮑ", "ꮒ", "ꮓ",
  "ꮔ", "ꮕ", "ꮖ", "ꮗ", "ꮘ", "ꮙ", "ꮚ", "ꮛ", "ꮜ", "ꮝ", "ꮞ", "ꮟ", "ꮠ", "ꮡ",
  "ꮢ", "ꮣ", "ꮤ", "ꮥ", "ꮦ", "ꮧ", "ꮨ", "ꮩ", "ꮪ", "ꮫ", "ꮬ", "ꮭ", "ꮮ", "ꮯ",
  "ꮰ", "ꮱ", "ꮲ", "ꮳ", "ꮴ", "ꮵ", "ꮶ", "ꮷ", "ꮸ", "ꮹ", "ꮺ", "ꮻ", "ꮼ", "ꮽ",
  "ꮾ", "ꮿ" }

\* The characters with the property Case_Ignorable.
CaseIgnorable == {
  "'", ".", ":", "^", "¨", "­", "¯", "´", "·", "¸", "ʰ", "ʱ", "ʲ", "ʳ",
  "ʴ", "ʵ", "ʶ", "ʷ", "ʸ", "ʹ", "ʺ", "ʻ", "ʼ", "ʽ", "ʾ", "ʿ", "ˀ", "ˁ",
  "˂", "˃", "˄", "˅", "ˆ", "ˇ", "ˈ", "ˉ", "ˊ", "ˋ", "ˌ", "ˍ", "ˎ", "ˏ",
  "ː", "ˑ", "˒", "˓", "˔", "˕", "˖", "˗", "˘", "˙", "˚", "˛", "˜", "˝",
  "˞", "˟", "ˠ", "ˡ", "ˢ", "ˣ", "ˤ", "˥", "˦", "˧", "˨", "˩", "˪", "˫",
  "ˬ", "˭", "ˮ", "˯", "˰", "˱", "˲", "˳", "˴", "˵", "˶", "˷", "˸", "˹",
  "˺", "˻", "˼", "˽", "˾", "˿", "΄", "΅", "·", "҃", "҄", "҅", "҆", "҇",
  "҈", "҉", "֑", "֒", "֓", "֔", "֕", "֖", "֗", "֘", "֙", "֚", "֛", "֜",
  "֝", "֞", "֟", "֠", "֡", "֢", "֣", "֤", "֥", "֦", "֧", "֨", "֩", "֪",
  "֫", "֬", "֭", "֮", "֯", "ְ", "ֱ", "ֲ", "ֳ", "ִ", "ֵ", "ֶ", "ַ", "ָ",
  "ֹ", "ֺ", "ֻ", "ּ", "ֽ", "ֿ", "ׁ", "ׂ", "ׄ", "ׅ", "ׇ", "״", "ۖ", "ۗ",
  "ۘ", "ۙ", "ۚ", "ۛ", "ۜ", "۝", "۟", "۠", "ۡ", "ۢ", "ۣ", "ۤ", "ۥ", "ۦ",
  "ۧ", "ۨ", "۪", "۫", "۬", "ۭ", "ަ", "ާ", "ި", "ީ", "ު", "ޫ", "ެ", "ޭ",
  "ޮ", "ޯ", "ް", "߫", "߬", "߭", "߮", "߯", "߰", "߱", "߲", "߳", "ߴ", "ߵ",
  "ߺ", "߽", "࢈", "࢐", "࢑", "࢘", "࢙", "࢚", "࢛", "࢜", "࢝", "࢞", "࢟", "ࣉ",
  "࣊", "࣋", "࣌", "࣍", "࣎", "࣏", "࣐", "࣑", "࣒", "࣓", "ࣔ", "ࣕ", "ࣖ", "ࣗ",
  "ࣘ", "ࣙ", "ࣚ", "ࣛ", "ࣜ", "ࣝ", "ࣞ", "ࣟ", "࣠", "࣡", "࣢", "ࣣ", "ࣤ", "ࣥ",
  "ࣦ", "ࣧ", "ࣨ", "ࣩ", "࣪", "࣫", "࣬", "࣭", "࣮", "࣯", "ࣰ", "ࣱ", "ࣲ", "ࣳ",
  "ࣴ", "ࣵ", "ࣶ", "ࣷ", "ࣸ", "ࣹ", "ࣺ", "ࣻ", "ࣼ", "ࣽ", "ࣾ", "ࣿ", "ঁ", "়",
  "ু", "ূ", "ৃ", "ৄ", "্", "ৢ", "ৣ", "৾", "ઁ", "ં", "઼", "ુ", "ૂ", "ૃ",
  "ૄ", "ૅ", "ે", "ૈ", "્", "ૢ", "ૣ", "ૺ", "ૻ", "ૼ", "૽", "૾", "૿", "ஂ",
  "ீ", "்", "ಁ", "಼", "ಿ", "ೆ", "ೌ", "್", "ೢ", "ೣ", "ඁ", "්", "ි", "ී",
  "ු", "ූ", "ັ", "ິ", "ີ", "ຶ", "ື", "ຸ", "ູ", "຺", "ົ", "ຼ", "ໆ", "່",
  "້", "໊", "໋", "໌", "ໍ", "ྀ", "ཱྀ", "ྂ", "ྃ", "྄", "྆", "྇", "ྍ", "ྎ",
  "ྏ", "ྐ", "ྑ", "ྒ", "ྒྷ", "ྔ", "ྕ", "ྖ", "ྗ", "ྙ", "ྚ", "ྛ", "ྜ", "ྜྷ",
  "ྞ", "ྟ", "ྠ", "ྡ", "ྡྷ", "ྣ", "ྤ", "ྥ", "ྦ", "ྦྷ", "ྨ", "ྩ", "ྪ", "ྫ",
  "ྫྷ", "ྭ", "ྮ", "ྯ", "ྰ", "ྱ", "ྲ", "ླ", "ྴ", "ྵ", "ྶ", "ྷ", "ྸ", "ྐྵ",
  "ྺ", "ྻ", "ྼ", "࿆", "ႂ", "ႅ", "ႆ", "ႍ", "ႝ", "ჼ", "឴", "឵", "ិ", "ី",
  "ឹ", "ឺ", "ុ", "ូ", "ួ", "ំ", "៉", "៊", "់", "៌", "៍", "៎", "៏", "័",
  "៑", "្", "៓", "ៗ", "៝", "ᢅ", "ᢆ", "ᢩ", "ᪧ", "᪰", "᪱", "᪲", "᪳", "᪴",
  "᪵", "᪶", "᪷", "᪸", "᪹", "᪺", "᪻", "᪼", "᪽", "᪾", "ᪿ", "ᫀ", "᫁", "᫂",
  "᫃", "᫄", "᫅", "᫆", "᫇", "᫈", "᫉", "᫊", "᫋", "ᫌ", "ᫍ", "ᫎ", "ᮀ", "ᮁ",
  "ᮢ", "ᮣ", "ᮤ", "ᮥ", "ᮨ", "ᮩ", "᮫", "ᮬ", "ᮭ", "᯦", "ᯨ", "ᯩ", "ᯭ", "ᯯ",
  "ᯰ", "ᯱ", "᳐", "᳑", "᳒", "᳔", "᳕", "᳖", "᳗", "᳘", "᳙", "᳚", "᳛", "᳜",
  "᳝", "᳞", "᳟", "᳠", "᳢", "᳣", "᳤", "᳥", "᳦", "᳧", "᳨", "᳭", "᳴", "᳸",
  "᳹", "ᶛ", "ᶜ", "ᶝ", "ᶞ", "ᶟ", "ᶠ", "ᶡ", "ᶢ", "ᶣ", "ᶤ", "ᶥ", "ᶦ", "ᶧ",
  "ᶨ", "ᶩ", "ᶪ", "ᶫ", "ᶬ", "ᶭ", "ᶮ", "ᶯ", "ᶰ", "ᶱ", "ᶲ", "ᶳ", "ᶴ", "ᶵ",
  "ᶶ", "ᶷ", "ᶸ", "ᶹ", "ᶺ", "ᶻ", "ᶼ", "ᶽ", "ᶾ", "ᶿ", "᷀", "᷁", "᷂", "᷃",
  "᷄", "᷅", "᷆", "᷇", "᷈", "᷉", "᷊", "᷋", "᷌", "᷍", "᷎", "᷏", "᷐", "᷑",
  "᷒", "ᷓ", "ᷔ", "ᷕ", "ᷖ", "ᷗ", "ᷘ", "ᷙ", "ᷚ", "ᷛ", "ᷜ", "ᷝ", "ᷞ", "ᷟ",
  "ᷠ", "ᷡ", "ᷢ", "ᷣ", "ᷤ", "ᷥ", "ᷦ", "ᷧ", "ᷨ", "ᷩ", "ᷪ", "ᷫ", "ᷬ", "ᷭ",
  "ᷮ", "ᷯ", "ᷰ", "ᷱ", "ᷲ", "ᷳ", "ᷴ", "᷵", "᷶", "᷷", "᷸", "᷹", "᷺", "᷻",
  "᷼", "᷽", "᷾", "᷿", "᾽", "᾿", "῀", "῁", "῍", "῎", "῏", "῝", "῞", "῟",
  "῭", "΅", "`", "´", "῾", "ₐ", "ₑ", "ₒ", "ₓ", "ₔ", "ₕ", "ₖ", "ₗ", "ₘ",
  "ₙ", "ₚ", "ₛ", "ₜ", "⃐", "⃑", "⃒", "⃓", "⃔", "⃕", "⃖", "⃗", "⃘", "⃙",
  "⃚", "⃛", "⃜", "⃝", "⃞", "⃟", "⃠", "⃡", "⃢", "⃣", "⃤", "⃥", "⃦", "⃧",
  "⃨", "⃩", "⃪", "⃫", "⃬", "⃭", "⃮", "⃯", "⃰", "⳯", "⳰", "⳱", "ⷠ", "ⷡ",
  "ⷢ", "ⷣ", "ⷤ", "ⷥ", "ⷦ", "ⷧ", "ⷨ", "ⷩ", "ⷪ", "ⷫ", "ⷬ", "ⷭ", "ⷮ", "ⷯ",
  "ⷰ", "ⷱ", "ⷲ", "ⷳ", "ⷴ", "ⷵ", "ⷶ", "ⷷ", "ⷸ", "ⷹ", "ⷺ", "ⷻ", "ⷼ", "ⷽ",
  "ⷾ", "ⷿ", "゙", "゚", "゛", "゜", "ゝ", "ゞ", "ー", "ヽ", "ヾ", "ꓸ", "ꓹ", "ꓺ",
  "ꓻ", "ꓼ", "ꓽ", "ꚜ", "ꚝ", "ꚞ", "ꚟ", "꛰", "꛱", "ꞈ", "꞉", "꞊", "ꟲ", "ꟳ",
  "ꟴ", "ꟸ", "ꟹ", "꣄", "ꣅ", "꣠", "꣡", "꣢", "꣣", "꣤", "꣥", "꣦", "꣧", "꣨",
  "꣩", "꣪", "꣫", "꣬", "꣭", "꣮", "꣯", "꣰", "꣱", "ꣿ", "ꦀ", "ꦁ", "ꦂ", "꦳",
  "ꦶ", "ꦷ", "ꦸ", "ꦹ", "ꦼ", "ꦽ", "ꧏ", "ꧥ", "ꧦ", "ꪰ", "ꪲ", "ꪳ", "ꪴ", "ꪷ",
  "ꪸ", "ꪾ", "꪿", "꫁", "ꫝ", "ꫬ", "ꫭ", "ꫳ", "ꫴ", "꫶", "ꯥ", "ꯨ", "꯭", "﮲",
  "﮳", "﮴", "﮵", "﮶", "﮷", "﮸", "﮹", "﮺", "﮻", "﮼", "﮽", "﮾", "﮿", "﯀",
  "﯁", "﯂", "﻿", "ﾞ", "ﾟ", "￣", "￹", "￺", "￻" }

\* The function of a table of pairs <<character, case>>, from place first to
\* place last: each character to its case.
RECURSIVE case_map(_, _, _)
case_map(pairs, first, last) ==
  IF first > last THEN <<>>
  ELSE IF first = last THEN pairs[first][1] :> pairs[first][2]
  ELSE LET middle == (first + last) \div 2
       IN case_map(pairs, first, middle) @@ case_map(pairs, middle + 1, last)

\* ToUpperFull as a function of the characters it lists.
UpperOf == case_map(ToUpperFull, 1, Len(ToUpperFull))

\* str.upper on one character: its upper case in ToUpperFull, and the
\* character itself when str.upper leaves it.
upper_char(c) ==
  IF c \in DOMAIN UpperOf THEN UpperOf[c]
  ELSE CASE c \notin UpperUnwritable -> c

\* str.upper: every character of the string in upper case.  A character
\* beyond U+FFFF is two units of the string; none that a string literal
\* holds has a case, and upper_char leaves both of its units.
RECURSIVE upper(_)
upper(s) ==
  IF Len(s) = 0 THEN s
  ELSE upper_char(SubSeq(s, 1, 1)) \o upper(SubSeq(s, 2, Len(s)))

\* ToLowerFull as a function of the characters it lists.
LowerOf == case_map(ToLowerFull, 1, Len(ToLowerFull))

\* str.lower on one character: its lower case in ToLowerFull, and the
\* character itself when str.lower leaves it.
lower_char(c) ==
  IF c \in DOMAIN LowerOf THEN LowerOf[c]
  ELSE CASE c \notin LowerUnwritable -> c

\* The lower case of the capital sigma at place i of s (handle_capital_sigma
\* of CPython): the final form when a cased character comes before it and
\* none after it, the Case_Ignorable characters on both sides skipped.
handle_capital_sigma(s, i) ==
  LET ignorable(j) == SubSeq(s, j, j) \in CaseIgnorable
      before == {j \in 1..(i - 1) : ~ignorable(j)}
      after == {j \in (i + 1)..Len(s) : ~ignorable(j)}
      last == CHOOSE j \in before : \A k \in before : k <= j
      next == CHOOSE j \in after : \A k \in after : j <= k
      final_sigma == /\ before # {}
                     /\ SubSeq(s, last, last) \in Cased
                     /\ (after = {} \/ SubSeq(s, next, next) \notin Cased)
  IN IF final_sigma THEN "ς" ELSE "σ"

\* The lower case of the characters of s from place i on.
RECURSIVE lower_from(_, _)
lower_from(s, i) ==
  IF i > Len(s) THEN ""
  ELSE (IF SubSeq(s, i, i) = "Σ" THEN handle_capital_sigma(s, i)
        ELSE lower_char(SubSeq(s, i, i)))
         \o lower_from(s, i + 1)

\* str.lower: every character of the string in lower case.
lower(s) == lower_from(s, 1)

\* ------------------------------------------------------------------ lexer

WHITESPACE_TOKENS == {"WHITESPACE", "NEWLINE"}

COMMENT_TOKENS == {"COMMENT", "BRACKET_COMMENT"}

Token(type, spelling, loc) == [type |-> type, spelling |-> spelling, loc |-> loc]

IsToken(x) == "type" \in DOMAIN x

\* ------------------------------------------------------------------ parse.util, parse.common

\* Python's None, as a node so that it compares with nodes.
None == [node_type |-> "None"]

NoWord == "<None>"

\* The case-folded spelling of a word token, None for any other token.
get_normalized_kwarg(token) ==
  IF token.type = "WORD" THEN upper(token.spelling) ELSE NoWord

\* The tag of a directive comment "# cmake-format: <tag>" / "# cmf: <tag>".
get_tag(token) ==
  IF token.type \notin COMMENT_TOKENS THEN NoWord
  ELSE CASE token.spelling = "# cmake-format: sortable" -> "sortable"
         [] token.spelling = "# cmf: sort" -> "sort"
         [] token.spelling = "# cmake-format: unsortable" -> "unsortable"
         [] token.spelling = "# cmf: unsort" -> "unsort"
         [] OTHER -> NoWord

\* An arity is Exact(k) for the integer k, or Sym("?"), Sym("*"), Sym("+").
Exact(k) == [int |-> k]

Sym(s) == [str |-> s]

npargs_is_exact(npargs) == "int" \in DOMAIN npargs

pargs_are_full(npargs, nconsumed) ==
  IF npargs_is_exact(npargs) THEN nconsumed >= npargs.int
  ELSE IF npargs.str = "?" THEN nconsumed >= 1
  ELSE FALSE

ParenBreaker == [breaker |-> "ParenBreaker"]

KwargBreaker(kwargs) == [breaker |-> "KwargBreaker", kwargs |-> {upper(k) : k \in kwargs}]

CallBreaker(breaker, token) ==
  IF breaker.breaker = "ParenBreaker" THEN token.type = "RIGHT_PAREN"
  ELSE token.type = "WORD" /\ upper(token.spelling) \in breaker.kwargs

should_break(token, breakstack) ==
  \E i \in DOMAIN breakstack : CallBreaker(breakstack[i], token)

TreeNode(node_type) == [node_type |-> node_type, children |-> <<>>]

Append1(tree, child) == [tree EXCEPT !.children = Append(@, child)]

Range(s) == {s[i] : i \in DOMAIN s}

\* tokens.pop(0) leaves the rest of the list.
Rest(tokens) == SubSeq(tokens, 2, Len(tokens))

\* What a parser hands back: the node, the token list as left, the outcome.
Return(tree, tokens) == [tree |-> tree, tokens |-> tokens, status |-> "ok"]

Raise(exception, tokens) == [tree |-> None, tokens |-> tokens, status |-> exception]

EmptySubtree == "AssertionError: parsed an empty subtree"

WrongKwarg == "AssertionError: somehow dispatched wrong kwarg parse"

NotLeftParen == "AssertionError"

NoComment == "AssertionError: consume_comment didn't consume any tokens"

ExpectingRParen == "ValueError: Unexpected token, expecting r-paren"

IndexError == "IndexError: list index out of range"

\* A loop iteration that went round again without taking a token: the loop
\* would never end.
NoProgress == "nonterminating"

\* ------------------------------------------------------------------ parse.simple_nodes

\* The loop with the append left out: the whitespace is popped and lost.
RECURSIVE StripWhitespace_drop(_, _)
StripWhitespace_drop(tree, tokens) ==
  IF Len(tokens) > 0 /\ tokens[1].type \in WHITESPACE_TOKENS
  THEN StripWhitespace_drop(tree, Rest(tokens))
  ELSE [tree |-> tree, tokens |-> tokens]

\* The leading run of whitespace tokens goes into the tree at this depth
\* (while tokens and tokens[0].type in WHITESPACE_TOKENS).
RECURSIVE StripWhitespace(_, _)
StripWhitespace(tree, tokens) ==
  IF Len(tokens) > 0 /\ tokens[1].type \in WHITESPACE_TOKENS
  THEN StripWhitespace(Append1(tree, tokens[1]), Rest(tokens))
  ELSE [tree |-> tree, tokens |-> tokens]

\* CommentNode.consume: a COMMENT node holding the comment token.
CommentNode_consume(tokens) ==
  [tree |-> Append1(TreeNode("COMMENT"), tokens[1]), tokens |-> Rest(tokens)]

next_is_trailing_comment(tokens) ==
  IF Len(tokens) = 0 THEN FALSE
  ELSE IF tokens[1].type \in COMMENT_TOKENS THEN TRUE
  ELSE IF Len(tokens) < 2 THEN FALSE
  ELSE tokens[1].type = "WHITESPACE" /\ tokens[2].type \in COMMENT_TOKENS

\* CommentNode.consume_trailing: a comment on the same line, with the
\* whitespace before it, becomes the last children of parent.
CommentNode_consume_trailing(tokens, parent) ==
  IF ~next_is_trailing_comment(tokens) THEN [tree |-> parent, tokens |-> tokens]
  ELSE LET p1 == IF tokens[1].type = "WHITESPACE" THEN Append1(parent, tokens[1]) ELSE parent
           t1 == IF tokens[1].type = "WHITESPACE" THEN Rest(tokens) ELSE tokens
           c == CommentNode_consume(t1)
       IN [tree |-> Append1(p1, c.tree), tokens |-> c.tokens]

\* ------------------------------------------------------------------ the parsers a keyword table can name

PositionalParser(npargs, flags, sortable) ==
  [parser |-> "PositionalParser", npargs |-> npargs, flags |-> flags, sortable |-> sortable]

StandardParser(npargs, kwargs, flags) ==
  [parser |-> "StandardParser", npargs |-> npargs, kwargs |-> kwargs, flags |-> flags]

ConditionalParser == [parser |-> "ConditionalGroupNode.parse"]

CONDITIONAL_FLAGS ==
  <<"COMMAND", "DEFINED", "EQUAL", "EXISTS", "GREATER", "LESS", "IS_ABSOLUTE",
    "IS_DIRECTORY", "IS_NEWER_THAN", "IS_SYMLINK", "MATCHES", "NOT", "POLICY",
    "STRLESS", "STRGREATER", "STREQUAL", "TARGET", "TEST", "VERSION_EQUAL",
    "VERSION_GREATER", "VERSION_LESS">>

RECURSIVE StandardArgTree_parse(_, _, _, _, _)
RECURSIVE StandardArgTree_loop(_, _, _)
RECURSIVE StandardArgTree_dispatch(_, _, _)
RECURSIVE KeywordGroupNode_parse(_, _, _, _)
RECURSIVE CallParser(_, _, _)
RECURSIVE PositionalGroupNode_parse(_, _, _, _, _)
RECURSIVE PositionalGroupNode_loop(_, _, _, _, _, _)
RECURSIVE PositionalGroupNode_iter(_, _, _, _)
RECURSIVE ParenGroupNode_parse(_, _)
RECURSIVE ConditionalGroupNode_parse(_, _)
RECURSIVE ConditionalGroupNode_loop(_, _, _, _)
RECURSIVE ConditionalGroupNode_iter(_, _, _, _)
RECURSIVE StandardArgTree_iter(_, _, _)

\* ------------------------------------------------------------------ KeywordNode, KeywordGroupNode

KeywordNode_parse(tokens) ==
  [tree |-> [node_type |-> "KEYWORD", children |-> <<tokens[1]>>, token |-> tokens[1]],
   tokens |-> Rest(tokens)]

\* The subtree attached as the body whether or not the sub-parser took a token.
KeywordGroupNode_body_always(tree, ntokens, sub) ==
  Return([tree EXCEPT !.body = sub.tree, !.children = Append(@, sub.tree)], sub.tokens)

\* The body is attached only when the sub-parser took a token.
KeywordGroupNode_body(tree, ntokens, sub) ==
  IF Len(sub.tokens) < ntokens
  THEN Return([tree EXCEPT !.body = sub.tree, !.children = Append(@, sub.tree)], sub.tokens)
  ELSE Return(tree, sub.tokens)

KeywordGroupNode_parse(tokens, word, subparser, breakstack) ==
  IF Len(tokens) = 0 THEN Raise(IndexError, tokens)
  ELSE IF upper(tokens[1].spelling) # upper(word) THEN Raise(WrongKwarg, tokens)
  ELSE LET keyword == KeywordNode_parse(tokens)
           tree == [node_type |-> "KWARGGROUP", children |-> <<keyword.tree>>,
                    keyword |-> keyword.tree, body |-> None]
           s == StripWhitespace(tree, keyword.tokens)
           Body(sub) == IF sub.status # "ok" THEN Raise(sub.status, sub.tokens)
                        ELSE KeywordGroupNode_body(s.tree, Len(s.tokens), sub)
       IN Body(CallParser(subparser, s.tokens, breakstack))

\* subparser(ctx, tokens, breakstack): StandardParser.__call__,
\* PositionalParser.__call__ or ConditionalGroupNode.parse.
CallParser(subparser, tokens, breakstack) ==
  IF subparser.parser = "PositionalParser"
  THEN PositionalGroupNode_parse(tokens, subparser.npargs, subparser.flags,
                                 breakstack, subparser.sortable)
  ELSE IF subparser.parser = "StandardParser"
  THEN StandardArgTree_parse(tokens, subparser.npargs, subparser.kwargs,
                             subparser.flags, breakstack)
  ELSE ConditionalGroupNode_parse(tokens, breakstack)

\* ------------------------------------------------------------------ PositionalGroupNode

\* The annotation with the branch of the unsortable tags left out.
PositionalGroupNode_sortable_only(tree, tokens) ==
  IF Len(tokens) > 0 /\ get_tag(tokens[1]) \in {"sortable", "sort"}
  THEN [tree EXCEPT !.sortable = TRUE]
  ELSE tree

\* The sortable annotation: a directive comment as the first token after the
\* leading whitespace.
PositionalGroupNode_sortable(tree, tokens) ==
  IF Len(tokens) > 0 /\ get_tag(tokens[1]) \in {"sortable", "sort"}
  THEN [tree EXCEPT !.sortable = TRUE]
  ELSE IF Len(tokens) > 0 /\ get_tag(tokens[1]) \in {"unsortable", "unsort"}
  THEN [tree EXCEPT !.sortable = FALSE]
  ELSE tree

\* The break without the exact-arity exception.
PositionalGroupNode_break_always(token, npargs, breakstack) ==
  should_break(token, breakstack)

\* The break with the exact-arity exception applied to every arity.
PositionalGroupNode_break_exact(token, npargs, breakstack) ==
  should_break(token, breakstack) /\ token.type = "RIGHT_PAREN"

\* The loop stops at a token of the breakstack, unless the arity is exact
\* and the token is no right parenthesis.
PositionalGroupNode_break(token, npargs, breakstack) ==
  should_break(token, breakstack)
    /\ (~npargs_is_exact(npargs) \/ token.type = "RIGHT_PAREN")

\* The argument popped but never appended to the group.
PositionalGroupNode_argument_noappend(tree, tokens, flags) ==
  LET child == IF get_normalized_kwarg(tokens[1]) \in Range(flags)
               THEN TreeNode("FLAG") ELSE TreeNode("ARGUMENT")
      c == CommentNode_consume_trailing(Rest(tokens), Append1(child, tokens[1]))
  IN [tree |-> tree, tokens |-> c.tokens, status |-> "ok", n |-> 1]

\* The argument without nconsumed += 1.
PositionalGroupNode_argument_nocount(tree, tokens, flags) ==
  LET child == IF get_normalized_kwarg(tokens[1]) \in Range(flags)
               THEN TreeNode("FLAG") ELSE TreeNode("ARGUMENT")
      c == CommentNode_consume_trailing(Rest(tokens), Append1(child, tokens[1]))
  IN [tree |-> Append1(tree, c.tree), tokens |-> c.tokens, status |-> "ok", n |-> 0]

\* The positional argument itself: FLAG or ARGUMENT, with its trailing comment.
PositionalGroupNode_argument(tree, tokens, flags) ==
  LET child == IF get_normalized_kwarg(tokens[1]) \in Range(flags)
               THEN TreeNode("FLAG") ELSE TreeNode("ARGUMENT")
      c == CommentNode_consume_trailing(Rest(tokens), Append1(child, tokens[1]))
  IN [tree |-> Append1(tree, c.tree), tokens |-> c.tokens, status |-> "ok", n |-> 1]

\* One pass of the loop body below the two breaks: [tree, tokens, status, n],
\* n the increment of nconsumed.
PositionalGroupNode_iter(tree, tokens, flags, breakstack) ==
  IF tokens[1].type = "LEFT_PAREN"
  THEN LET Group(sub) ==
             IF sub.status # "ok"
             THEN [tree |-> None, tokens |-> sub.tokens, status |-> sub.status, n |-> 0]
             ELSE [tree |-> Append1(tree, sub.tree), tokens |-> sub.tokens,
                   status |-> "ok", n |-> 0]
       IN Group(ParenGroupNode_parse(tokens, breakstack))
  ELSE IF tokens[1].type \in WHITESPACE_TOKENS
  THEN [tree |-> Append1(tree, tokens[1]), tokens |-> Rest(tokens), status |-> "ok", n |-> 0]
  ELSE IF tokens[1].type \in COMMENT_TOKENS
  THEN LET c == CommentNode_consume(tokens)
       IN IF ~(Len(c.tokens) < Len(tokens))
          THEN [tree |-> None, tokens |-> c.tokens, status |-> NoComment, n |-> 0]
          ELSE [tree |-> Append1(tree, c.tree), tokens |-> c.tokens, status |-> "ok", n |-> 0]
  ELSE PositionalGroupNode_argument(tree, tokens, flags)

PositionalGroupNode_loop(tree, tokens, npargs, flags, breakstack, nconsumed) ==
  IF Len(tokens) = 0 THEN Return(tree, tokens)
  ELSE IF pargs_are_full(npargs, nconsumed) THEN Return(tree, tokens)
  ELSE IF PositionalGroupNode_break(tokens[1], npargs, breakstack) THEN Return(tree, tokens)
  ELSE LET Again(it) ==
             IF it.status # "ok" THEN Raise(it.status, it.tokens)
             ELSE IF ~(Len(it.tokens) < Len(tokens)) THEN Raise(NoProgress, it.tokens)
             ELSE PositionalGroupNode_loop(it.tree, it.tokens, npargs, flags, breakstack,
                                           nconsumed + it.n)
       IN Again(PositionalGroupNode_iter(tree, tokens, flags, breakstack))

PositionalGroupNode_parse(tokens, npargs, flags, breakstack, sortable) ==
  LET tree == [node_type |-> "PARGGROUP", children |-> <<>>, sortable |-> sortable,
               spec |-> [npargs |-> npargs, flags |-> flags]]
      s == StripWhitespace(tree, tokens)
  IN PositionalGroupNode_loop(PositionalGroupNode_sortable(s.tree, s.tokens), s.tokens,
                              npargs, flags, breakstack, 0)

\* ------------------------------------------------------------------ ParenGroupNode

\* After the body: the right parenthesis and the trailing comment.
ParenGroupNode_close(tree, tokens) ==
  IF Len(tokens) = 0 THEN Raise(IndexError, tokens)
  ELSE IF tokens[1].type # "RIGHT_PAREN" THEN Raise(ExpectingRParen, tokens)
  ELSE LET rparen == Append1(TreeNode("RPAREN"), tokens[1])
           c == CommentNode_consume_trailing(Rest(tokens), Append1(tree, rparen))
       IN Return(c.tree, c.tokens)

\* The body parsed with the caller's breakstack instead of a fresh one.
ParenGroupNode_parse_inherit(tokens, breakstack) ==
  IF Len(tokens) = 0 THEN Raise(IndexError, tokens)
  ELSE IF tokens[1].type # "LEFT_PAREN" THEN Raise(NotLeftParen, tokens)
  ELSE LET lparen == Append1(TreeNode("LPAREN"), tokens[1])
           tree == Append1(TreeNode("PARENGROUP"), lparen)
           Close(sub) == IF sub.status # "ok" THEN Raise(sub.status, sub.tokens)
                         ELSE ParenGroupNode_close(Append1(tree, sub.tree), sub.tokens)
       IN Close(ConditionalGroupNode_parse(Rest(tokens), breakstack))

\* The body parsed with the caller's breakstack and the paren breaker on top.
ParenGroupNode_parse_stacked(tokens, breakstack) ==
  IF Len(tokens) = 0 THEN Raise(IndexError, tokens)
  ELSE IF tokens[1].type # "LEFT_PAREN" THEN Raise(NotLeftParen, tokens)
  ELSE LET lparen == Append1(TreeNode("LPAREN"), tokens[1])
           tree == Append1(TreeNode("PARENGROUP"), lparen)
           Close(sub) == IF sub.status # "ok" THEN Raise(sub.status, sub.tokens)
                         ELSE ParenGroupNode_close(Append1(tree, sub.tree), sub.tokens)
       IN Close(ConditionalGroupNode_parse(Rest(tokens), Append(breakstack, ParenBreaker)))

ParenGroupNode_parse(tokens, breakstack) ==
  IF Len(tokens) = 0 THEN Raise(IndexError, tokens)
  ELSE IF tokens[1].type # "LEFT_PAREN" THEN Raise(NotLeftParen, tokens)
  ELSE LET lparen == Append1(TreeNode("LPAREN"), tokens[1])
           tree == Append1(TreeNode("PARENGROUP"), lparen)
           Close(sub) == IF sub.status # "ok" THEN Raise(sub.status, sub.tokens)
                         ELSE ParenGroupNode_close(Append1(tree, sub.tree), sub.tokens)
       IN Close(ConditionalGroupNode_parse(Rest(tokens), <<ParenBreaker>>))

\* ------------------------------------------------------------------ ConditionalGroupNode

ConditionalKwargs == {"AND", "OR"}

\* The loop body handing the keyword group the breakstack of the caller,
\* without the AND/OR breaker.
ConditionalGroupNode_iter_kwinherit(tree, tokens, breakstack, child_breakstack) ==
  LET Child(sub) == IF sub.status # "ok" THEN Raise(sub.status, sub.tokens)
                    ELSE Return(Append1(tree, sub.tree), sub.tokens)
      Checked(sub) == IF sub.status # "ok" THEN Raise(sub.status, sub.tokens)
                      ELSE IF ~(Len(sub.tokens) < Len(tokens))
                      THEN Raise(EmptySubtree, sub.tokens)
                      ELSE Return(Append1(tree, sub.tree), sub.tokens)
  IN
  IF tokens[1].type \in WHITESPACE_TOKENS
  THEN Return(Append1(tree, tokens[1]), Rest(tokens))
  ELSE IF tokens[1].type \in COMMENT_TOKENS
  THEN Return(Append1(tree, Append1(TreeNode("COMMENT"), tokens[1])), Rest(tokens))
  ELSE IF tokens[1].type = "LEFT_PAREN"
  THEN Child(ParenGroupNode_parse(tokens, breakstack))
  ELSE IF get_normalized_kwarg(tokens[1]) \in ConditionalKwargs
  THEN Checked(KeywordGroupNode_parse(tokens, get_normalized_kwarg(tokens[1]),
                                      ConditionalParser, breakstack))
  ELSE Child(PositionalGroupNode_parse(tokens, Sym("+"), CONDITIONAL_FLAGS,
                                       child_breakstack, FALSE))

\* One pass of the loop body below the break.
ConditionalGroupNode_iter(tree, tokens, breakstack, child_breakstack) ==
  LET Child(sub) == IF sub.status # "ok" THEN Raise(sub.status, sub.tokens)
                    ELSE Return(Append1(tree, sub.tree), sub.tokens)
      Checked(sub) == IF sub.status # "ok" THEN Raise(sub.status, sub.tokens)
                      ELSE IF ~(Len(sub.tokens) < Len(tokens))
                      THEN Raise(EmptySubtree, sub.tokens)
                      ELSE Return(Append1(tree, sub.tree), sub.tokens)
  IN
  IF tokens[1].type \in WHITESPACE_TOKENS
  THEN Return(Append1(tree, tokens[1]), Rest(tokens))
  ELSE IF tokens[1].type \in COMMENT_TOKENS
  THEN Return(Append1(tree, Append1(TreeNode("COMMENT"), tokens[1])), Rest(tokens))
  ELSE IF tokens[1].type = "LEFT_PAREN"
  THEN Child(ParenGroupNode_parse(tokens, breakstack))
  ELSE IF get_normalized_kwarg(tokens[1]) \in ConditionalKwargs
  THEN Checked(KeywordGroupNode_parse(tokens, get_normalized_kwarg(tokens[1]),
                                      ConditionalParser, child_breakstack))
  ELSE Child(PositionalGroupNode_parse(tokens, Sym("+"), CONDITIONAL_FLAGS,
                                       child_breakstack, FALSE))

ConditionalGroupNode_loop(tree, tokens, breakstack, child_breakstack) ==
  IF Len(tokens) = 0 THEN Return(tree, tokens)
  ELSE IF should_break(tokens[1], breakstack) THEN Return(tree, tokens)
  ELSE LET Again(it) ==
             IF it.status # "ok" THEN it
             ELSE IF ~(Len(it.tokens) < Len(tokens)) THEN Raise(NoProgress, it.tokens)
             ELSE ConditionalGroupNode_loop(it.tree, it.tokens, breakstack, child_breakstack)
       IN Again(ConditionalGroupNode_iter(tree, tokens, breakstack, child_breakstack))

\* The parse handing its own breakstack down, without the AND/OR breaker.
ConditionalGroupNode_parse_nobreaker(tokens, breakstack) ==
  LET s == StripWhitespace(TreeNode("ARGGROUP"), tokens)
  IN ConditionalGroupNode_loop(s.tree, s.tokens, breakstack, breakstack)

ConditionalGroupNode_parse(tokens, breakstack) ==
  LET s == StripWhitespace(TreeNode("ARGGROUP"), tokens)
      child_breakstack == Append(breakstack, KwargBreaker(ConditionalKwargs))
  IN ConditionalGroupNode_loop(s.tree, s.tokens, breakstack, child_breakstack)

\* ------------------------------------------------------------------ StandardArgTree

\* The dispatch with the two views taken one for the other.
StandardArgTree_dispatch_swapped(tree, tokens, g) ==
  LET word == get_normalized_kwarg(tokens[1])
      Group(sub, list) ==
        IF sub.status # "ok" THEN Raise(sub.status, sub.tokens)
        ELSE IF ~(Len(sub.tokens) < Len(tokens)) THEN Raise(EmptySubtree, sub.tokens)
        ELSE Return([tree EXCEPT ![list] = Append(@, sub.tree),
                                 !.children = Append(@, sub.tree)], sub.tokens)
  IN IF word \in DOMAIN g.kwargs
     THEN Group(KeywordGroupNode_parse(tokens, word, g.kwargs[word], g.kwarg_breakstack),
                "parg_groups")
     ELSE Group(PositionalGroupNode_parse(tokens, g.npargs, g.flags,
                                          g.positional_breakstack, FALSE),
                "kwarg_groups")

\* The dispatch without the assert that the subtree is not empty.
StandardArgTree_dispatch_noassert(tree, tokens, g) ==
  LET word == get_normalized_kwarg(tokens[1])
      Group(sub, list) ==
        IF sub.status # "ok" THEN Raise(sub.status, sub.tokens)
        ELSE Return([tree EXCEPT ![list] = Append(@, sub.tree),
                                 !.children = Append(@, sub.tree)], sub.tokens)
  IN IF word \in DOMAIN g.kwargs
     THEN Group(KeywordGroupNode_parse(tokens, word, g.kwargs[word], g.kwarg_breakstack),
                "kwarg_groups")
     ELSE Group(PositionalGroupNode_parse(tokens, g.npargs, g.flags,
                                          g.positional_breakstack, FALSE),
                "parg_groups")

\* The keyword or positional sub-parser for the next token, and the check
\* that it took one.  g holds the grammar and the three breakstacks.
StandardArgTree_dispatch(tree, tokens, g) ==
  LET word == get_normalized_kwarg(tokens[1])
      Group(sub, list) ==
        IF sub.status # "ok" THEN Raise(sub.status, sub.tokens)
        ELSE IF ~(Len(sub.tokens) < Len(tokens)) THEN Raise(EmptySubtree, sub.tokens)
        ELSE Return([tree EXCEPT ![list] = Append(@, sub.tree),
                                 !.children = Append(@, sub.tree)], sub.tokens)
  IN IF word \in DOMAIN g.kwargs
     THEN Group(KeywordGroupNode_parse(tokens, word, g.kwargs[word], g.kwarg_breakstack),
                "kwarg_groups")
     ELSE Group(PositionalGroupNode_parse(tokens, g.npargs, g.flags,
                                          g.positional_breakstack, FALSE),
                "parg_groups")

\* The loop body leaving the comments to the sub-parsers.
StandardArgTree_iter_nocomment(tree, tokens, g) ==
  IF tokens[1].type \in WHITESPACE_TOKENS
  THEN Return(Append1(tree, tokens[1]), Rest(tokens))
  ELSE StandardArgTree_dispatch(tree, tokens, g)

\* One pass of the loop body below the break.
StandardArgTree_iter(tree, tokens, g) ==
  IF tokens[1].type \in WHITESPACE_TOKENS
  THEN Return(Append1(tree, tokens[1]), Rest(tokens))
  ELSE IF tokens[1].type \in COMMENT_TOKENS
  THEN Return(Append1(tree, Append1(TreeNode("COMMENT"), tokens[1])), Rest(tokens))
  ELSE StandardArgTree_dispatch(tree, tokens, g)

\* The loop breaking on the keyword breakstack it hands down instead of its own.
StandardArgTree_loop_kwbreak(tree, tokens, g) ==
  IF Len(tokens) = 0 THEN Return(tree, tokens)
  ELSE IF should_break(tokens[1], g.kwarg_breakstack) THEN Return(tree, tokens)
  ELSE LET Again(it) ==
             IF it.status # "ok" THEN it
             ELSE IF ~(Len(it.tokens) < Len(tokens)) THEN Raise(NoProgress, it.tokens)
             ELSE StandardArgTree_loop(it.tree, it.tokens, g)
       IN Again(StandardArgTree_iter(tree, tokens, g))

StandardArgTree_loop(tree, tokens, g) ==
  IF Len(tokens) = 0 THEN Return(tree, tokens)
  ELSE IF should_break(tokens[1], g.breakstack) THEN Return(tree, tokens)
  ELSE LET Again(it) ==
             IF it.status # "ok" THEN it
             ELSE IF ~(Len(it.tokens) < Len(tokens)) THEN Raise(NoProgress, it.tokens)
             ELSE StandardArgTree_loop(it.tree, it.tokens, g)
       IN Again(StandardArgTree_iter(tree, tokens, g))

\* The parse with the flags left out of the breaker of the keyword sub-parsers.
StandardArgTree_parse_noflagbreak(tokens, npargs, kwargs, flags, breakstack) ==
  LET tree == [node_type |-> "ARGGROUP", children |-> <<>>,
               parg_groups |-> <<>>, kwarg_groups |-> <<>>]
      s == StripWhitespace(tree, tokens)
      uflags == [i \in DOMAIN flags |-> upper(flags[i])]
      g == [npargs |-> npargs, kwargs |-> kwargs, flags |-> uflags,
            breakstack |-> breakstack,
            kwarg_breakstack |-> Append(breakstack, KwargBreaker(DOMAIN kwargs)),
            positional_breakstack |-> Append(breakstack, KwargBreaker(DOMAIN kwargs))]
  IN StandardArgTree_loop(s.tree, s.tokens, g)

\* The parse handing its own breakstack to the keyword sub-parsers, without
\* the breaker of its keywords and flags.
StandardArgTree_parse_nokwbreak(tokens, npargs, kwargs, flags, breakstack) ==
  LET tree == [node_type |-> "ARGGROUP", children |-> <<>>,
               parg_groups |-> <<>>, kwarg_groups |-> <<>>]
      s == StripWhitespace(tree, tokens)
      uflags == [i \in DOMAIN flags |-> upper(flags[i])]
      g == [npargs |-> npargs, kwargs |-> kwargs, flags |-> uflags,
            breakstack |-> breakstack,
            kwarg_breakstack |-> breakstack,
            positional_breakstack |-> Append(breakstack, KwargBreaker(DOMAIN kwargs))]
  IN StandardArgTree_loop(s.tree, s.tokens, g)

StandardArgTree_parse(tokens, npargs, kwargs, flags, breakstack) ==
  LET tree == [node_type |-> "ARGGROUP", children |-> <<>>,
               parg_groups |-> <<>>, kwarg_groups |-> <<>>]
      s == StripWhitespace(tree, tokens)
      uflags == [i \in DOMAIN flags |-> upper(flags[i])]
      g == [npargs |-> npargs, kwargs |-> kwargs, flags |-> uflags,
            breakstack |-> breakstack,
            kwarg_breakstack |->
              Append(breakstack, KwargBreaker(DOMAIN kwargs \cup Range(uflags))),
            positional_breakstack |-> Append(breakstack, KwargBreaker(DOMAIN kwargs))]
  IN StandardArgTree_loop(s.tree, s.tokens, g)

\* ------------------------------------------------------------------ TreeNode queries

\* TreeNode.get_tokens: the leaf tokens under a node, in order.
RECURSIVE get_tokens(_)
RECURSIVE get_tokens_of(_, _)
get_tokens_of(children, i) ==
  IF i > Len(children) THEN <<>>
  ELSE (IF IsToken(children[i]) THEN <<children[i]>> ELSE get_tokens(children[i]))
         \o get_tokens_of(children, i + 1)

get_tokens(node) == get_tokens_of(node.children, 1)

\* TreeNode.get_semantic_tokens: the leaf tokens that are neither whitespace
\* nor comments.
get_semantic_tokens(node) ==
  SelectSeq(get_tokens(node),
            LAMBDA t : t.type \notin WHITESPACE_TOKENS \cup COMMENT_TOKENS)

\* lexer.SourceLocation of a node with no token under it.
NoLocation == 0

\* TreeNode.get_location: where the first token under the node is.
get_location(node) ==
  IF Len(get_tokens(node)) = 0 THEN NoLocation ELSE get_tokens(node)[1].loc

\* ------------------------------------------------------------------ StandardArgTree.check_required_kwargs

\* Python's order (by code point) on the strings sorted() is given.
StrRank(s) ==
  CASE s = "BAR" -> 1 [] s = "BAZ" -> 2 [] s = "C0113" -> 3
    [] s = "E1125" -> 4 [] s = "FOO" -> 5

LintLess(p, q) ==
  \/ StrRank(p[1]) < StrRank(q[1])
  \/ p[1] = q[1] /\ StrRank(p[2]) < StrRank(q[2])

\* sorted(pairs): the (lintid, word) pairs in ascending order.
RECURSIVE sorted(_)
sorted(pairs) ==
  IF pairs = {} THEN <<>>
  ELSE LET least == CHOOSE p \in pairs : \A q \in pairs \ {p} : LintLess(p, q)
       IN <<least>> \o sorted(pairs \ {least})

\* The pop keyed by the spelling as written instead of the normalized keyword.
PopFound_spelling(tree, required) ==
  LET found == {tree.kwarg_groups[i].keyword.token.spelling :
                  i \in DOMAIN tree.kwarg_groups}
  IN [w \in DOMAIN required \ found |-> required[w]]

\* The loop over kwarg_groups left out: nothing is popped.
PopFound_none(tree, required) == required

\* required_kwargs.pop(word, None) for the keyword of every keyword group.
PopFound(tree, required) ==
  LET found == {get_normalized_kwarg(tree.kwarg_groups[i].keyword.token) :
                  i \in DOMAIN tree.kwarg_groups}
  IN [w \in DOMAIN required \ found |-> required[w]]

\* lint_ctx.record_lint(lintid, word, location=location)
record_lint(lintid, word, location) ==
  [lintid |-> lintid, word |-> word, location |-> location]

\* The call popping the keyword groups off the tree as it visits them.
check_required_kwargs_poptree(tree, lint_ctx, required) ==
  LET left == PopFound(tree, required)
      location == IF Len(get_semantic_tokens(tree)) > 0
                  THEN get_semantic_tokens(tree)[1].loc
                  ELSE get_location(tree)
      missing_kwargs == sorted({<<left[w], w>> : w \in DOMAIN left})
  IN [tree |-> [tree EXCEPT !.kwarg_groups = <<>>],
      required_kwargs |-> left,
      lint_ctx |-> IF DOMAIN left = {} THEN lint_ctx
                   ELSE lint_ctx \o [i \in DOMAIN missing_kwargs |->
                          record_lint(missing_kwargs[i][1], missing_kwargs[i][2], location)]]

\* The tree (self), the dict and the lint sink as the call leaves them.
check_required_kwargs(tree, lint_ctx, required) ==
  LET left == PopFound(tree, required)
      location == IF Len(get_semantic_tokens(tree)) > 0
                  THEN get_semantic_tokens(tree)[1].loc
                  ELSE get_location(tree)
      missing_kwargs == sorted({<<left[w], w>> : w \in DOMAIN left})
  IN [tree |-> tree,
      required_kwargs |-> left,
      lint_ctx |-> IF DOMAIN left = {} THEN lint_ctx
                   ELSE lint_ctx \o [i \in DOMAIN missing_kwargs |->
                          record_lint(missing_kwargs[i][1], missing_kwargs[i][2], location)]]

\* ------------------------------------------------------------------ the inputs

\* The kinds of token the enumerated streams are made of.
Alphabet ==
  { [type |-> "WORD", spelling |-> "a"],
    [type |-> "WORD", spelling |-> "foo"],
    [type |-> "WORD", spelling |-> "BAR"],
    [type |-> "WORD", spelling |-> "AND"],
    [type |-> "WHITESPACE", spelling |-> " "],
    [type |-> "COMMENT", spelling |-> "# x"],
    [type |-> "LEFT_PAREN", spelling |-> "("],
    [type |-> "RIGHT_PAREN", spelling |-> ")"] }

\* The lexer numbers the tokens: a token's location is its place in the stream.
Lex(kinds) == [i \in DOMAIN kinds |-> Token(kinds[i].type, kinds[i].spelling, i)]

Word(spelling) == [type |-> "WORD", spelling |-> spelling]

Space == [type |-> "WHITESPACE", spelling |-> " "]

LParen == [type |-> "LEFT_PAREN", spelling |-> "("]

RParen == [type |-> "RIGHT_PAREN", spelling |-> ")"]

\* The arguments of cmd(a b FOO c d), up to the closing parenthesis.
KeywordStream ==
  <<Word("a"), Space, Word("b"), Space, Word("FOO"), Space, Word("c"), Space,
    Word("d"), RParen>>

\* The arguments of if(A AND (B OR C)), up to the closing parenthesis.
ConditionStream ==
  <<Word("A"), Space, Word("AND"), Space, LParen, Word("B"), Space, Word("OR"),
    Space, Word("C"), RParen>>

\* (b c and nothing after it: the group of cmd(a (b c) cut before its ")".
UnclosedStream == <<LParen, Word("b"), Space, Word("c")>>

\* ((a) b) # x: a parenthetical group in another, with a trailing comment.
NestedStream ==
  <<LParen, LParen, Word("a"), RParen, Space, Word("b"), RParen, Space,
    [type |-> "COMMENT", spelling |-> "# x"]>>

\* The token kinds of the streams with directive comments: one spelling of each
\* directive; the other spelling of each is in the two streams below.
DirectiveAlphabet ==
  { [type |-> "WORD", spelling |-> "a"],
    [type |-> "WHITESPACE", spelling |-> " "],
    [type |-> "COMMENT", spelling |-> "# cmf: sort"],
    [type |-> "COMMENT", spelling |-> "# cmake-format: unsortable"] }

\* "# cmake-format: sortable" before two arguments.
SortableStream ==
  <<[type |-> "COMMENT", spelling |-> "# cmake-format: sortable"], Space, Word("a"),
    Space, Word("a")>>

\* "# cmf: unsort" before two arguments.
UnsortStream ==
  <<[type |-> "COMMENT", spelling |-> "# cmf: unsort"], Space, Word("a"), Space,
    Word("a")>>

\* The arguments of if(A AND B OR C), without the closing parenthesis.
FlatConditionStream ==
  <<Word("A"), Space, Word("AND"), Space, Word("B"), Space, Word("OR"), Space,
    Word("C")>>

\* "# cmf: sort" a Foo "# cmake-format: sortable" b: a directive before the
\* positional arguments of the command and one after a keyword.
DirectiveKeywordStream ==
  <<[type |-> "COMMENT", spelling |-> "# cmf: sort"], Space, Word("a"), Space,
    Word("Foo"), Space, [type |-> "COMMENT", spelling |-> "# cmake-format: sortable"],
    Space, Word("b")>>

\* foo "# cmf: unsort" a: a keyword with an unsortable directive after it.
UnsortKeywordStream ==
  <<Word("foo"), Space, [type |-> "COMMENT", spelling |-> "# cmf: unsort"], Space,
    Word("a")>>

\* a (not foo BAR) foo b: the words of keywords inside a parenthetical group.
IsolatedStream ==
  <<Word("a"), Space, LParen, Word("not"), Space, Word("foo"), Space, Word("BAR"),
    RParen, Space, Word("foo"), Space, Word("b")>>

Scenarios ==
  {KeywordStream, ConditionStream, UnclosedStream, NestedStream, SortableStream,
   UnsortStream, FlatConditionStream, DirectiveKeywordStream, UnsortKeywordStream,
   IsolatedStream}

Streams ==
  UNION {[1..n -> Alphabet] : n \in 0..MaxLen}
    \cup UNION {[1..n -> DirectiveAlphabet] : n \in 0..MaxLen}
    \cup Scenarios

Arities == {Exact(0), Exact(1), Exact(2), Sym("?"), Sym("*"), Sym("+")}

NoKwargs == <<>>

KwargTables ==
  { NoKwargs,
    "FOO" :> PositionalParser(Sym("*"), <<>>, FALSE),
    ("FOO" :> PositionalParser(Exact(1), <<>>, FALSE))
       @@ ("BAR" :> PositionalParser(Sym("+"), <<>>, FALSE)),
    "FOO" :> StandardParser(Sym("*"), "BAR" :> PositionalParser(Sym("?"), <<>>, FALSE), <<>>),
    "FOO" :> PositionalParser(Exact(2), <<>>, FALSE) }

\* The sub-parsers KeywordGroupNode.parse is tried with.
SubParsers ==
  { PositionalParser(Sym("*"), <<>>, FALSE),
    PositionalParser(Exact(1), <<>>, FALSE),
    PositionalParser(Exact(0), <<>>, FALSE),
    PositionalParser(Sym("*"), <<>>, TRUE),
    StandardParser(Sym("*"), "BAR" :> PositionalParser(Sym("?"), <<>>, FALSE), <<>>),
    ConditionalParser }

FlagLists == {<<>>, <<"bar">>}

\* The grammars StandardArgTree.parse is tried with: every arity with every
\* keyword table and flag list above; and, for cmd(a b FOO c d), the flag c
\* with a FOO sub-parser that is positional of any length, positional of
\* exactly two, and standard.
Grammars ==
  [npargs : Arities, kwargs : KwargTables, flags : FlagLists]
    \cup [npargs : {Sym("*")},
          kwargs : {k \in KwargTables : DOMAIN k = {"FOO"} /\ k["FOO"].npargs # Exact(1)},
          flags : {<<"c">>}]

Breakstacks == {<<>>, <<ParenBreaker>>, <<ParenBreaker, KwargBreaker({"BAR"})>>}

\* The breakstacks KeywordGroupNode.parse is tried with: those above, and the
\* one StandardArgTree.parse passes for the keywords FOO and BAR, which
\* matches the keyword of the group itself.
KeywordBreakstacks ==
  Breakstacks \cup {<<ParenBreaker, KwargBreaker({"FOO", "BAR"})>>}

\* The required keywords a caller passes: keyword -> lint id.
RequiredKwargs ==
  { <<>>,
    "FOO" :> "E1125",
    "BAR" :> "E1125",
    ("FOO" :> "E1125") @@ ("BAR" :> "C0113") }

\* ------------------------------------------------------------------ the operations

Init ==
  /\ stream \in {Lex(k) : k \in Streams}
  /\ pc = "start"
  /\ call = [op |-> "none"]
  /\ result = [tree |-> None, tokens |-> stream, status |-> "none"]
  /\ required_kwargs = <<>>
  /\ lint_sink = <<>>
  /\ config = None

ParseStandard ==
  /\ pc = "start"
  /\ \E g \in Grammars :
       /\ call' = [op |-> "StandardArgTree.parse", npargs |-> g.npargs,
                   kwargs |-> g.kwargs, flags |-> g.flags,
                   breakstack |-> <<ParenBreaker>>]
       /\ result' = StandardArgTree_parse(stream, g.npargs, g.kwargs, g.flags,
                                          <<ParenBreaker>>)
  /\ pc' = "parsed"
  /\ UNCHANGED <<stream, required_kwargs, lint_sink, config>>

ParsePositional ==
  /\ pc = "start"
  /\ \E npargs \in Arities, flags \in FlagLists, breakstack \in Breakstacks,
        sortable \in BOOLEAN :
       /\ call' = [op |-> "PositionalGroupNode.parse", npargs |-> npargs,
                   flags |-> flags, breakstack |-> breakstack, sortable |-> sortable]
       /\ result' = PositionalGroupNode_parse(stream, npargs, flags, breakstack, sortable)
  /\ pc' = "parsed"
  /\ UNCHANGED <<stream, required_kwargs, lint_sink, config>>

ParseConditional ==
  /\ pc = "start"
  /\ \E breakstack \in Breakstacks :
       /\ call' = [op |-> "ConditionalGroupNode.parse", breakstack |-> breakstack]
       /\ result' = ConditionalGroupNode_parse(stream, breakstack)
  /\ pc' = "parsed"
  /\ UNCHANGED <<stream, required_kwargs, lint_sink, config>>

ParseParenGroup ==
  /\ pc = "start"
  /\ call' = [op |-> "ParenGroupNode.parse", breakstack |-> <<>>]
  /\ result' = ParenGroupNode_parse(stream, <<>>)
  /\ pc' = "parsed"
  /\ UNCHANGED <<stream, required_kwargs, lint_sink, config>>

ParseKeywordGroup ==
  /\ pc = "start"
  /\ \E subparser \in SubParsers, breakstack \in KeywordBreakstacks :
       /\ call' = [op |-> "KeywordGroupNode.parse", word |-> "FOO",
                   subparser |-> subparser, breakstack |-> breakstack]
       /\ result' = KeywordGroupNode_parse(stream, "FOO", subparser, breakstack)
  /\ pc' = "parsed"
  /\ UNCHANGED <<stream, required_kwargs, lint_sink, config>>

\* check_required_kwargs on the tree StandardArgTree.parse returned.
CheckRequiredKwargs ==
  /\ pc = "parsed"
  /\ call.op = "StandardArgTree.parse"
  /\ result.status = "ok"
  /\ \E required \in RequiredKwargs :
       \E r \in {check_required_kwargs(result.tree, lint_sink, required)} :
          /\ call' = [op |-> "check_required_kwargs", required_kwargs |-> required]
          /\ result' = [result EXCEPT !.tree = r.tree]
          /\ required_kwargs' = r.required_kwargs
          /\ lint_sink' = r.lint_ctx
  /\ pc' = "checked"
  /\ UNCHANGED <<stream, config>>

Next ==
  \/ ParseStandard
  \/ ParsePositional
  \/ ParseKeywordGroup
  \/ ParseParenGroup
  \/ ParseConditional
  \/ CheckRequiredKwargs

Spec == Init /\ [][Next]_vars

\* ------------------------------------------------------------------ configuration

\* Longest per_command argument given to Configuration.
MaxOverrides == 2

NoneValue == [none |-> TRUE]

IntValue(n) == [int |-> n]

\* A dict is [dict |-> f], f from its keys to their values; anything else is
\* no dict.
Dict(f) == [dict |-> f]

isinstance_dict(x) == "dict" \in DOMAIN x

\* return value if it is not None, else default
get_default(value, default) == IF value = NoneValue THEN default ELSE value

\* commands.get_default_config(): the built-in per-command table, keyed by
\* lower-case command names.
DefaultConfigs == { <<>>, "list" :> ("custom" :> IntValue(7)) }

\* The loop over per_command.items(), from item i on: a value that is no
\* dict is skipped, a dict updates the entry of the lower-cased command.
RECURSIVE MergeOverrides(_, _, _)
MergeOverrides(table, items, i) ==
  IF i > Len(items) THEN table
  ELSE LET command == lower(items[i].command)
           cdict == items[i].cdict
       IN IF ~isinstance_dict(cdict) THEN MergeOverrides(table, items, i + 1)
          ELSE LET entry == IF command \in DOMAIN table THEN table[command] ELSE <<>>
               IN MergeOverrides((command :> (cdict.dict @@ entry)) @@ table, items, i + 1)

\* Configuration.__init__: the fields the model keeps and the per-command table.
Configuration_init(line_width, default_config, per_command) ==
  [fields |-> "line_width" :> IntValue(line_width),
   per_command |-> MergeOverrides(default_config,
                                  get_default(per_command, [items |-> <<>>]).items, 1)]

\* hasattr(self, config_key), for the keys that are configuration fields or none.
hasattr(self, config_key) == config_key \in DOMAIN self.fields

AssertionError == "AssertionError"

\* The lookup under the command name as given, not lower-cased.
resolve_for_command_nolower(self, command_name, config_key, default_value) ==
  IF hasattr(self, config_key) /\ default_value # NoneValue
  THEN [value |-> NoneValue, status |-> AssertionError]
  ELSE LET default == IF hasattr(self, config_key) THEN self.fields[config_key]
                      ELSE default_value
           entry == IF command_name \in DOMAIN self.per_command
                    THEN self.per_command[command_name] ELSE <<>>
       IN [value |-> IF config_key \in DOMAIN entry THEN entry[config_key] ELSE default,
           status |-> "ok"]

\* Configuration.resolve_for_command
resolve_for_command(self, command_name, config_key, default_value) ==
  IF hasattr(self, config_key) /\ default_value # NoneValue
  THEN [value |-> NoneValue, status |-> AssertionError]
  ELSE LET default == IF hasattr(self, config_key) THEN self.fields[config_key]
                      ELSE default_value
           entry == IF lower(command_name) \in DOMAIN self.per_command
                    THEN self.per_command[lower(command_name)] ELSE <<>>
       IN [value |-> IF config_key \in DOMAIN entry THEN entry[config_key] ELSE default,
           status |-> "ok"]

CommandNames == {"foo", "FOO", "list", "List", "Été"}

ConfigKeys == {"line_width", "custom"}

\* The values given to a command in per_command: dicts and one that is none.
Overrides ==
  { Dict("line_width" :> IntValue(40)),
    Dict("custom" :> IntValue(1)),
    Dict(("line_width" :> IntValue(60)) @@ ("custom" :> IntValue(2))),
    [str |-> "not a dict"] }

\* The items of a dict: no key twice.
ItemLists ==
  {items \in UNION {[1..n -> [command : CommandNames, cdict : Overrides]] : n \in 0..MaxOverrides} :
     \A i, j \in DOMAIN items : i # j => items[i].command # items[j].command}

PerCommandArgs == {NoneValue} \cup {[items |-> items] : items \in ItemLists}

LineWidths == {80, 100}

ConfigInit ==
  /\ pc = "config"
  /\ config = None
  /\ call = [op |-> "none"]
  /\ result = [value |-> NoneValue, status |-> "none"]
  /\ stream = <<>>
  /\ required_kwargs = <<>>
  /\ lint_sink = <<>>

\* Configuration(line_width=..., per_command=...)
Construct ==
  /\ pc = "config"
  /\ \E line_width \in LineWidths, default_config \in DefaultConfigs,
        per_command \in PerCommandArgs :
       /\ call' = [op |-> "Configuration", line_width |-> line_width,
                   default_config |-> default_config, per_command |-> per_command]
       /\ config' = Configuration_init(line_width, default_config, per_command)
  /\ pc' = "constructed"
  /\ UNCHANGED <<stream, result, required_kwargs, lint_sink>>

\* config.resolve_for_command(command_name, config_key, default_value)
Resolve ==
  /\ pc = "constructed"
  /\ \E command_name \in CommandNames, config_key \in ConfigKeys,
        default_value \in {NoneValue, IntValue(5)} :
       /\ call' = [op |-> "resolve_for_command", command_name |-> command_name,
                   config_key |-> config_key, default_value |-> default_value]
       /\ result' = resolve_for_command(config, command_name, config_key, default_value)
  /\ pc' = "resolved"
  /\ UNCHANGED <<stream, config, required_kwargs, lint_sink>>

ConfigNext == Construct \/ Resolve

ConfigSpec == ConfigInit /\ [][ConfigNext]_vars

\* ------------------------------------------------------------------ what the properties speak of

\* The number of tokens the call took from the stream.
Consumed == Len(stream) - Len(result.tokens)

Returned(op) == pc = "parsed" /\ call.op = op /\ result.status = "ok"

IsNode(x) == "node_type" \in DOMAIN x

\* The children of a node that are nodes, in order.
ChildNodes(node) == SelectSeq(node.children, IsNode)

NodeTypes(nodes) == [i \in DOMAIN nodes |-> nodes[i].node_type]

\* The ARGUMENT and FLAG children of a group, in order.
ArgChildren(group) ==
  SelectSeq(group.children,
            LAMBDA c : IsNode(c) /\ c.node_type \in {"ARGUMENT", "FLAG"})

\* The spellings of the arguments of a group.
Args(group) == [i \in DOMAIN ArgChildren(group) |-> ArgChildren(group)[i].children[1].spelling]

Spellings(tokens) == [i \in DOMAIN tokens |-> tokens[i].spelling]

\* Every node of a tree, the root included.
RECURSIVE AllNodes(_)
AllNodes(node) ==
  IF ~IsNode(node) \/ node = None THEN {}
  ELSE {node} \cup UNION {AllNodes(node.children[i]) : i \in DOMAIN node.children}

\* ------------------------------------------------------------------ C1

\* C1: a parser that returns leaves the tokens it took in the tree, each
\* once and in order, and the rest of the stream untouched: the leaf tokens
\* of the tree followed by the remaining tokens are the input stream.
C1_RoundTrip ==
  (pc = "parsed" /\ result.status = "ok")
    => get_tokens(result.tree) \o result.tokens = stream

C1_Witness ==
  /\ Returned("StandardArgTree.parse")
  /\ Len(stream) >= 3
  /\ result.tokens = <<>>
  /\ \E i \in DOMAIN stream : stream[i].type = "COMMENT"
  /\ \E i \in DOMAIN stream : stream[i].type = "WHITESPACE"
  /\ Len(result.tree.kwarg_groups) = 1

\* ------------------------------------------------------------------ C2

\* C2: no parse loops forever: an iteration of a main loop that does not
\* leave the loop or raise takes at least one token.
C2_Terminates == pc # "start" => result.status # NoProgress

C2_Witness ==
  /\ Returned("StandardArgTree.parse")
  /\ call.npargs = Exact(1)
  /\ Len(stream) >= 3
  /\ result.tokens = <<>>
  /\ Len(result.tree.parg_groups) >= 3

\* ------------------------------------------------------------------ C3

WellFormedArity(npargs) ==
  IF npargs_is_exact(npargs) THEN npargs.int >= 0 ELSE npargs.str \in {"?", "*", "+"}

WellFormedGrammar(npargs, kwargs) ==
  /\ WellFormedArity(npargs)
  /\ \A k \in DOMAIN kwargs :
       /\ upper(k) = k
       /\ kwargs[k].parser \in {"PositionalParser", "StandardParser"}
       /\ WellFormedArity(kwargs[k].npargs)

\* C3: with a well-formed grammar StandardArgTree.parse never aborts with
\* 'parsed an empty subtree'.
C3_NoEmptySubtree ==
  (pc = "parsed" /\ call.op = "StandardArgTree.parse"
     /\ WellFormedGrammar(call.npargs, call.kwargs))
    => result.status # EmptySubtree

\* ------------------------------------------------------------------ C4

Composite == {"StandardArgTree.parse", "ConditionalGroupNode.parse", "ParenGroupNode.parse"}

\* C4 as stated: a composite parser that returns on a non-empty stream has
\* taken a token.
C4_Original ==
  (pc = "parsed" /\ call.op \in Composite /\ result.status = "ok" /\ Len(stream) > 0)
    => Consumed > 0

\* The first token of the stream is one the caller's breakstack stops at
\* (ParenGroupNode.parse does not read its breakstack).
StartsAtBreak ==
  /\ call.op # "ParenGroupNode.parse"
  /\ should_break(stream[1], call.breakstack)

\* C4, amended: a composite parser that returns on a non-empty stream has
\* taken a token unless the first token is matched by the caller's breakstack.
C4_Progress ==
  (pc = "parsed" /\ call.op \in Composite /\ result.status = "ok" /\ Len(stream) > 0
     /\ ~StartsAtBreak)
    => Consumed > 0

C4_Witness ==
  /\ Returned("ConditionalGroupNode.parse")
  /\ Len(stream) > 0
  /\ ~StartsAtBreak
  /\ Consumed > 0
  /\ Len(result.tokens) > 0

\* ------------------------------------------------------------------ C5

\* One positional group [a, b] and one keyword group FOO -> [c, d].
KeywordShape(tree) ==
  /\ Len(tree.parg_groups) = 1
  /\ Args(tree.parg_groups[1]) = <<"a", "b">>
  /\ Len(tree.kwarg_groups) = 1
  /\ tree.kwarg_groups[1].keyword.token.spelling = "FOO"
  /\ tree.kwarg_groups[1].body # None
  /\ Spellings(get_semantic_tokens(tree.kwarg_groups[1].body)) = <<"c", "d">>
  /\ NodeTypes(ChildNodes(tree)) = <<"PARGGROUP", "KWARGGROUP">>

KeywordCase ==
  /\ pc = "parsed"
  /\ call.op = "StandardArgTree.parse"
  /\ stream = Lex(KeywordStream)
  /\ "FOO" \in DOMAIN call.kwargs
  /\ "FOO" \notin {upper(f) : f \in Range(call.flags)}

\* C5 as stated: whatever the positional arity, a b FOO c d, when it parses,
\* gives one positional group [a, b] and one keyword group FOO -> [c, d].
C5_Original == (KeywordCase /\ result.status = "ok") => KeywordShape(result.tree)

\* An arity that lets one group take any run of positional arguments.
Unbounded(npargs) == npargs \in {Sym("*"), Sym("+")}

\* The positional groups among the children before the first keyword group.
PargsBeforeKeyword(tree) ==
  LET types == NodeTypes(ChildNodes(tree))
  IN {i \in DOMAIN types :
        /\ types[i] = "PARGGROUP"
        /\ \A j \in 1..i : types[j] # "KWARGGROUP"}

\* No flag of the command is spelt like a value of cmd(a b FOO c d).
NoFlagLikeValue ==
  {upper(f) : f \in Range(call.flags)} \cap {"A", "B", "C", "D"} = {}

\* The FOO sub-parser takes two values or more.
TakesTwo(p) ==
  \/ Unbounded(p.npargs)
  \/ (npargs_is_exact(p.npargs) /\ p.npargs.int >= 2)

\* FOO without a value list, and c d in a second positional group with c as
\* a flag.
FlagEndsKeyword(tree) ==
  /\ Len(tree.kwarg_groups) = 1
  /\ tree.kwarg_groups[1].body = None
  /\ Len(tree.parg_groups) = 2
  /\ Args(tree.parg_groups[1]) = <<"a", "b">>
  /\ Args(tree.parg_groups[2]) = <<"c", "d">>
  /\ NodeTypes(ChildNodes(tree.parg_groups[2])) = <<"FLAG", "ARGUMENT">>
  /\ NodeTypes(ChildNodes(tree)) = <<"PARGGROUP", "KWARGGROUP", "PARGGROUP">>

\* C5, amended: with no flag spelt like a, b, c or d, positional arity '*',
\* '+' or exactly 2 and a FOO sub-parser that takes two values or more,
\* a b FOO c d gives one positional group [a, b] and one keyword group
\* FOO -> [c, d]; with the flag c and a FOO sub-parser of no exact arity the
\* flag ends the value list of FOO before it starts, and c d are a second
\* positional group; with arity '*' or '+' the positional tokens before the
\* first keyword group are in one positional group, for every stream.
C5_KeywordPrecedence ==
  /\ (KeywordCase /\ NoFlagLikeValue
        /\ (Unbounded(call.npargs) \/ call.npargs = Exact(2))
        /\ TakesTwo(call.kwargs["FOO"]))
       => (result.status = "ok" /\ KeywordShape(result.tree))
  /\ (KeywordCase /\ call.flags = <<"c">> /\ Unbounded(call.npargs)
        /\ ~npargs_is_exact(call.kwargs["FOO"].npargs))
       => (result.status = "ok" /\ FlagEndsKeyword(result.tree))
  /\ (Returned("StandardArgTree.parse") /\ Unbounded(call.npargs))
       => Cardinality(PargsBeforeKeyword(result.tree)) <= 1

\* a b FOO c d with the flag bar and positional arity '*' gives the two groups.
C5_Witness ==
  /\ KeywordCase
  /\ call.npargs = Sym("*")
  /\ call.flags = <<"bar">>
  /\ NoFlagLikeValue
  /\ TakesTwo(call.kwargs["FOO"])
  /\ result.status = "ok"
  /\ KeywordShape(result.tree)

\* ------------------------------------------------------------------ C6

\* The tree has a keyword group for the keyword.
HasKeyword(tree, word) ==
  \E i \in DOMAIN tree.kwarg_groups :
    upper(tree.kwarg_groups[i].keyword.token.spelling) = word

\* The places in the stream of the tokens the parse took that are neither
\* whitespace nor comment.
SemanticPlaces ==
  {i \in 1..Consumed : stream[i].type \notin WHITESPACE_TOKENS \cup COMMENT_TOKENS}

\* Where the diagnostic belongs: the first semantic token of the tree, or
\* the tree's own location when it has none.
DiagnosticLocation ==
  IF SemanticPlaces # {} THEN CHOOSE i \in SemanticPlaces : \A j \in SemanticPlaces : i <= j
  ELSE IF Consumed > 0 THEN 1
  ELSE NoLocation

\* C6: with the required set {FOO}, check_required_kwargs records exactly one
\* diagnostic, at the first semantic token of the tree, when the tree has no
\* FOO keyword group, and none when it has one.
C6_RequiredDiagnostic ==
  (pc = "checked" /\ DOMAIN call.required_kwargs = {"FOO"})
    => IF HasKeyword(result.tree, "FOO")
       THEN lint_sink = <<>>
       ELSE /\ Len(lint_sink) = 1
            /\ lint_sink[1] = record_lint(call.required_kwargs["FOO"], "FOO",
                                          DiagnosticLocation)

C6_Witness ==
  /\ pc = "checked"
  /\ DOMAIN call.required_kwargs = {"FOO"}
  /\ ~HasKeyword(result.tree, "FOO")
  /\ Len(result.tree.kwarg_groups) = 1
  /\ Len(lint_sink) = 1
  /\ lint_sink[1].location = 2

\* ------------------------------------------------------------------ C7

\* C7 as stated: one call records at most one diagnostic.
C7_Original == pc = "checked" => Len(lint_sink) <= 1

\* The required keywords with no keyword group in the tree.
Absent == {w \in DOMAIN call.required_kwargs : ~HasKeyword(result.tree, w)}

\* C7, amended: one call records one diagnostic for each required keyword
\* that has no keyword group in the tree and no other: at most one for each
\* keyword of the required set, at most one in all when the set has one keyword.
C7_OncePerKeyword ==
  pc = "checked"
    => /\ Len(lint_sink) = Cardinality(Absent)
       /\ {lint_sink[i].word : i \in DOMAIN lint_sink} = Absent
       /\ DOMAIN required_kwargs = Absent

C7_Witness ==
  /\ pc = "checked"
  /\ Cardinality(DOMAIN call.required_kwargs) = 2
  /\ Len(result.tree.kwarg_groups) = 1
  /\ Len(lint_sink) = 1

\* ------------------------------------------------------------------ C8

\* C8: ParenGroupNode.parse that has taken its left parenthesis and fails,
\* fails with the parse error that names the token found where the right
\* parenthesis was expected.
C8_ParenMismatch ==
  (pc = "parsed" /\ call.op = "ParenGroupNode.parse" /\ Len(stream) > 0
     /\ stream[1].type = "LEFT_PAREN" /\ result.status # "ok")
    => result.status = ExpectingRParen

\* ------------------------------------------------------------------ C9

ConditionCase ==
  /\ pc = "parsed"
  /\ call.op = "ConditionalGroupNode.parse"
  /\ stream = Lex(ConditionStream)

\* B, then OR with C in its body.
InnerConditionShape(tree) ==
  /\ tree.node_type = "ARGGROUP"
  /\ NodeTypes(ChildNodes(tree)) = <<"PARGGROUP", "KWARGGROUP">>
  /\ Args(ChildNodes(tree)[1]) = <<"B">>
  /\ ChildNodes(tree)[2].keyword.token.spelling = "OR"
  /\ ChildNodes(tree)[2].body # None
  /\ ChildNodes(tree)[2].body.node_type = "ARGGROUP"
  /\ NodeTypes(ChildNodes(ChildNodes(tree)[2].body)) = <<"PARGGROUP">>
  /\ Args(ChildNodes(ChildNodes(tree)[2].body)[1]) = <<"C">>

\* A, then AND whose body holds the parenthetical group of B OR C.
ConditionShape(tree) ==
  /\ tree.node_type = "ARGGROUP"
  /\ NodeTypes(ChildNodes(tree)) = <<"PARGGROUP", "KWARGGROUP">>
  /\ Args(ChildNodes(tree)[1]) = <<"A">>
  /\ ChildNodes(tree)[2].keyword.token.spelling = "AND"
  /\ ChildNodes(tree)[2].body # None
  /\ ChildNodes(tree)[2].body.node_type = "ARGGROUP"
  /\ NodeTypes(ChildNodes(ChildNodes(tree)[2].body)) = <<"PARENGROUP">>
  /\ LET paren == ChildNodes(ChildNodes(tree)[2].body)[1]
     IN /\ NodeTypes(paren.children) = <<"LPAREN", "ARGGROUP", "RPAREN">>
        /\ InnerConditionShape(paren.children[2])

\* C9: A AND (B OR C) parses into positional A and an AND keyword group
\* whose body holds the parenthetical group (LPAREN, body, RPAREN), the body
\* being positional B and an OR keyword group with positional C in its body.
C9_ConditionalGrouping ==
  ConditionCase => (result.status = "ok" /\ Consumed = Len(stream)
                      /\ ConditionShape(result.tree))

C9_Witness == ConditionCase /\ result.status = "ok" /\ ConditionShape(result.tree)

\* ------------------------------------------------------------------ C10

\* C10: a positional group of exact arity k has at most k ARGUMENT/FLAG
\* children, and one of arity '?' at most one, wherever in a returned tree.
C10_ArityUpperBound ==
  (pc = "parsed" /\ result.status = "ok")
    => \A n \in AllNodes(result.tree) :
         n.node_type = "PARGGROUP"
           => /\ npargs_is_exact(n.spec.npargs)
                   => Len(ArgChildren(n)) <= n.spec.npargs.int
              /\ n.spec.npargs = Sym("?") => Len(ArgChildren(n)) <= 1

C10_Witness ==
  /\ Returned("PositionalGroupNode.parse")
  /\ call.npargs = Exact(2)
  /\ Len(ArgChildren(result.tree)) = 2
  /\ Len(result.tokens) > 0
  /\ result.tokens[1].type = "WORD"
  /\ ~should_break(result.tokens[1], call.breakstack)

\* ------------------------------------------------------------------ C11

\* C11 as stated: arity '+' on a non-empty stream gives a group with at
\* least one ARGUMENT/FLAG child.
C11_Original ==
  (Returned("PositionalGroupNode.parse") /\ call.npargs = Sym("+") /\ Len(stream) > 0)
    => Len(ArgChildren(result.tree)) >= 1

\* The places in the stream of the tokens that are neither whitespace nor comment.
Semantic == {i \in DOMAIN stream : stream[i].type \notin WHITESPACE_TOKENS \cup COMMENT_TOKENS}

\* The first token of the stream that is neither whitespace nor comment is
\* there, opens no parenthetical group and is not matched by the breakstack.
StartsWithValue ==
  /\ Semantic # {}
  /\ LET first == stream[CHOOSE i \in Semantic : \A j \in Semantic : i <= j]
     IN /\ first.type # "LEFT_PAREN"
        /\ ~should_break(first, call.breakstack)

\* C11, amended: PositionalGroupNode.parse with arity '+' returns a group
\* with at least one ARGUMENT/FLAG child when the first token of the stream
\* that is neither whitespace nor comment is no left parenthesis and is not
\* matched by the breakstack.
C11_OneOrMore ==
  (Returned("PositionalGroupNode.parse") /\ call.npargs = Sym("+") /\ StartsWithValue)
    => Len(ArgChildren(result.tree)) >= 1

C11_Witness ==
  /\ Returned("PositionalGroupNode.parse")
  /\ call.npargs = Sym("+")
  /\ StartsWithValue
  /\ stream[1].type = "WHITESPACE"
  /\ Len(stream) = 3
  /\ stream[2].type = "COMMENT"
  /\ Len(ArgChildren(result.tree)) = 1

\* ------------------------------------------------------------------ C12

\* The leaf tokens under a node that are in no parenthetical group, in order.
RECURSIVE OuterTokens(_)
RECURSIVE OuterTokens_of(_, _)
OuterTokens_of(children, i) ==
  IF i > Len(children) THEN <<>>
  ELSE (IF IsToken(children[i]) THEN <<children[i]>> ELSE OuterTokens(children[i]))
         \o OuterTokens_of(children, i + 1)

OuterTokens(node) ==
  IF node.node_type = "PARENGROUP" THEN <<>> ELSE OuterTokens_of(node.children, 1)

\* The tokens of the ARGUMENT and FLAG nodes under a node, parenthetical
\* groups included.
ArgumentTokens(node) ==
  {n.children[1] : n \in {m \in AllNodes(node) : m.node_type \in {"ARGUMENT", "FLAG"}}}

\* The keywords of the command: the keys of its keyword table.
IsKeyword(token, kwargs) == get_normalized_kwarg(token) \in DOMAIN kwargs

RECURSIVE NonExactParser(_)
NonExactParser(p) ==
  CASE p.parser = "PositionalParser" -> ~npargs_is_exact(p.npargs)
    [] p.parser = "StandardParser" ->
         /\ ~npargs_is_exact(p.npargs)
         /\ \A k \in DOMAIN p.kwargs : NonExactParser(p.kwargs[k])
    [] OTHER -> TRUE

\* No positional arity of the grammar the call was given is an exact integer.
NonExactCall ==
  CASE call.op = "PositionalGroupNode.parse" -> ~npargs_is_exact(call.npargs)
    [] call.op = "StandardArgTree.parse" ->
         /\ ~npargs_is_exact(call.npargs)
         /\ \A k \in DOMAIN call.kwargs : NonExactParser(call.kwargs[k])
    [] call.op = "KeywordGroupNode.parse" -> NonExactParser(call.subparser)
    [] OTHER -> TRUE

Locs(tokens) == {tokens[i].loc : i \in DOMAIN tokens}

\* The sub-parser the keyword table of the call has for a keyword group.
GroupParser(group) == call.kwargs[get_normalized_kwarg(group.keyword.token)]

\* The token is the keyword KeywordGroupNode.parse was called for, which it
\* takes without asking the breakstack (lines 181-185).
OwnKeyword(token) ==
  /\ call.op = "KeywordGroupNode.parse"
  /\ token.loc = 1

\* The child after child i of the tree is the keyword group of the token.
NextGroupIs(tree, i, token) ==
  LET nodes == ChildNodes(tree)
      j == CHOOSE k \in DOMAIN nodes : nodes[k] = tree.kwarg_groups[i]
  IN /\ j < Len(nodes)
     /\ nodes[j + 1].node_type = "KWARGGROUP"
     /\ nodes[j + 1].keyword.token = token

\* No keyword group under a parenthetical group has a keyword of the command
\* for its keyword.
RECURSIVE NoGroupInParens(_, _)
NoGroupInParens(node, inside) ==
  IF IsToken(node) THEN TRUE
  ELSE /\ (inside /\ node.node_type = "KWARGGROUP")
            => ~IsKeyword(node.keyword.token, call.kwargs)
       /\ \A i \in DOMAIN node.children :
            NoGroupInParens(node.children[i], inside \/ node.node_type = "PARENGROUP")

IsPrefix(s, t) == Len(s) <= Len(t) /\ SubSeq(t, 1, Len(s)) = s

\* The keywords of the keyword groups of a tree, normalized.
FoundKeywords(tree) ==
  {upper(tree.kwarg_groups[i].keyword.token.spelling) : i \in DOMAIN tree.kwarg_groups}

\* C13: check_required_kwargs leaves the tree as it was (children,
\* parg_groups, kwarg_groups and all below them), whether or not it records
\* a diagnostic; it only appends to the lint sink and takes the keywords
\* found out of the required set.
C13_TreeUntouched ==
  [][(pc = "parsed" /\ pc' = "checked")
       => /\ result' = result
          /\ stream' = stream
          /\ IsPrefix(lint_sink, lint_sink')
          /\ required_kwargs' =
               [w \in DOMAIN call'.required_kwargs \ FoundKeywords(result.tree) |->
                  call'.required_kwargs[w]]]_vars

\* A call that recorded a diagnostic and took a found keyword out of the set.
C13_Witness ==
  /\ pc = "checked"
  /\ Len(lint_sink) = 1
  /\ Len(result.tree.kwarg_groups) >= 1
  /\ Len(result.tree.parg_groups) >= 1
  /\ Cardinality(DOMAIN call.required_kwargs) = 2
  /\ Cardinality(DOMAIN required_kwargs) = 1

\* ------------------------------------------------------------------ C14

\* The group stopped before a token the breakstack matches.
StoppedAtBreak ==
  /\ Len(result.tokens) > 0
  /\ should_break(result.tokens[1], call.breakstack)

\* The group has all the arguments its exact arity asks for.
Full == Len(ArgChildren(result.tree)) >= call.npargs.int

\* The tokens the group took, outside parenthetical groups, that the
\* breakstack matches.
TakenBreaks ==
  SelectSeq(OuterTokens(result.tree), LAMBDA t : should_break(t, call.breakstack))

\* C14 as stated: with an exact arity the group goes on past a right
\* parenthesis the breakstack matches and stops at any other token it
\* matches; with '?', '*', '+' it stops at every token the breakstack matches.
C14_Original ==
  Returned("PositionalGroupNode.parse")
    => IF npargs_is_exact(call.npargs)
       THEN /\ (StoppedAtBreak /\ result.tokens[1].type = "RIGHT_PAREN") => Full
            /\ \A i \in DOMAIN TakenBreaks : TakenBreaks[i].type = "RIGHT_PAREN"
       ELSE TakenBreaks = <<>>

\* C14, amended: with an exact arity the group stops at a right parenthesis
\* the breakstack matches and goes on past any other token it matches (it
\* stops there only when it is full); with '?', '*', '+' it stops at every
\* token the breakstack matches.
C14_ExactArityException ==
  Returned("PositionalGroupNode.parse")
    => IF npargs_is_exact(call.npargs)
       THEN /\ (StoppedAtBreak /\ result.tokens[1].type # "RIGHT_PAREN") => Full
            /\ \A i \in DOMAIN TakenBreaks : TakenBreaks[i].type # "RIGHT_PAREN"
       ELSE TakenBreaks = <<>>

\* BAR ) with arity 2 and BAR on the breakstack: BAR is taken as an
\* argument, the right parenthesis ends the group before it is full.
C14_Witness ==
  /\ Returned("PositionalGroupNode.parse")
  /\ call.npargs = Exact(2)
  /\ Len(call.breakstack) = 2
  /\ Args(result.tree) = <<"BAR">>
  /\ StoppedAtBreak
  /\ result.tokens[1].type = "RIGHT_PAREN"

\* ------------------------------------------------------------------ C15

\* The word is in the flag list of the call.
IsFlag(token) ==
  token.type = "WORD" /\ upper(token.spelling) \in {upper(f) : f \in Range(call.flags)}

\* The tokens of a keyword group after its keyword, outside parenthetical groups.
ValueTokens(group) == Rest(OuterTokens(group))

SubParserOf(group) == call.kwargs[upper(group.keyword.token.spelling)]

\* The positional and keyword groups among the children of a tree, in order.
Groups(tree) ==
  SelectSeq(ChildNodes(tree), LAMBDA c : c.node_type \in {"PARGGROUP", "KWARGGROUP"})

\* In the positional groups of the command a flag word is a FLAG child and
\* every other value an ARGUMENT child, and with arity '*' or '+' no
\* positional group ends but at a keyword: no two are neighbours.
FlagsInPositionalGroups(tree) ==
  /\ \A i \in DOMAIN tree.parg_groups :
       \A j \in DOMAIN ArgChildren(tree.parg_groups[i]) :
         LET child == ArgChildren(tree.parg_groups[i])[j]
         IN child.node_type = "FLAG" <=> IsFlag(child.children[1])
  /\ Unbounded(call.npargs)
       => \A i \in 1..(Len(Groups(tree)) - 1) :
            ~(Groups(tree)[i].node_type = "PARGGROUP"
                /\ Groups(tree)[i + 1].node_type = "PARGGROUP")

\* C15 as stated: a flag word ends the value list of every keyword group (no
\* value list holds one), does not end a positional group of the command, and
\* is a FLAG child there, every other value an ARGUMENT child.
C15_Original ==
  Returned("StandardArgTree.parse")
    => /\ \A i \in DOMAIN result.tree.kwarg_groups :
            \A j \in DOMAIN ValueTokens(result.tree.kwarg_groups[i]) :
              ~IsFlag(ValueTokens(result.tree.kwarg_groups[i])[j])
       /\ FlagsInPositionalGroups(result.tree)

\* C15, amended: a flag word ends the value list of a keyword group whose
\* sub-parser has no exact arity (outside parenthetical groups no such value
\* list holds one), does not end a positional group of the command, and is
\* a FLAG child there, every other value an ARGUMENT child.
C15_Flags ==
  Returned("StandardArgTree.parse")
    => /\ \A i \in DOMAIN result.tree.kwarg_groups :
            NonExactParser(SubParserOf(result.tree.kwarg_groups[i]))
              => \A j \in DOMAIN ValueTokens(result.tree.kwarg_groups[i]) :
                   ~IsFlag(ValueTokens(result.tree.kwarg_groups[i])[j])
       /\ FlagsInPositionalGroups(result.tree)

\* foo a BAR with the flag bar: the value list of foo is [a], BAR is a FLAG
\* of a positional group of the command.
C15_Witness ==
  /\ Returned("StandardArgTree.parse")
  /\ call.flags = <<"bar">>
  /\ call.npargs = Sym("*")
  /\ Len(result.tree.kwarg_groups) = 1
  /\ result.tree.kwarg_groups[1].body # None
  /\ Args(result.tree.kwarg_groups[1].body) = <<"a">>
  /\ Len(result.tree.parg_groups) = 1
  /\ NodeTypes(ArgChildren(result.tree.parg_groups[1])) = <<"FLAG">>
  /\ Args(result.tree.parg_groups[1]) = <<"BAR">>

\* ------------------------------------------------------------------ C16

\* The number of whitespace tokens of the stream right after its first token.
WhitespaceAfterKeyword ==
  CHOOSE n \in 0..(Len(stream) - 1) :
    /\ \A j \in 2..(n + 1) : stream[j].type \in WHITESPACE_TOKENS
    /\ (n + 2 <= Len(stream) => stream[n + 2].type \notin WHITESPACE_TOKENS)

\* The keyword token first, in a KEYWORD node, then the whitespace, then the
\* body as the last child if and only if the sub-parser took a token.
KeywordGroupShape(tree, n) ==
  /\ tree.node_type = "KWARGGROUP"
  /\ tree.keyword = [node_type |-> "KEYWORD", children |-> <<stream[1]>>, token |-> stream[1]]
  /\ tree.children[1] = tree.keyword
  /\ \A j \in 2..(n + 1) : tree.children[j] = stream[j]
  /\ Consumed >= n + 1
  /\ IF Consumed > n + 1
     THEN /\ tree.body # None
          /\ Len(tree.children) = n + 2
          /\ tree.children[n + 2] = tree.body
          /\ get_tokens(tree.body) = SubSeq(stream, n + 2, Consumed)
     ELSE /\ tree.body = None
          /\ Len(tree.children) = n + 1

\* The token after the keyword and its whitespace is one the breakstack matches.
ValueListStartsAtBreak(n) ==
  /\ n + 2 <= Len(stream)
  /\ should_break(stream[n + 2], call.breakstack)

\* C16 as stated: the keyword group has the shape above, and none has a body
\* when its keyword is followed by a keyword or a right parenthesis of the
\* breakstack.
C16_Original ==
  Returned("KeywordGroupNode.parse")
    => /\ KeywordGroupShape(result.tree, WhitespaceAfterKeyword)
       /\ ValueListStartsAtBreak(WhitespaceAfterKeyword) => result.tree.body = None

\* C16, amended: the keyword group has the shape above, and has no body when
\* its keyword is followed by a right parenthesis of the breakstack, or by a
\* keyword of the breakstack and no arity of the sub-parser is exact.
C16_KeywordGroupShape ==
  Returned("KeywordGroupNode.parse")
    => /\ KeywordGroupShape(result.tree, WhitespaceAfterKeyword)
       /\ (ValueListStartsAtBreak(WhitespaceAfterKeyword)
             /\ (NonExactParser(call.subparser)
                   \/ stream[WhitespaceAfterKeyword + 2].type = "RIGHT_PAREN"))
            => result.tree.body = None

\* foo, a space, then the closing parenthesis: a keyword group with no body.
C16_Witness ==
  /\ Returned("KeywordGroupNode.parse")
  /\ Len(stream) = 3
  /\ WhitespaceAfterKeyword = 1
  /\ stream[3].type = "RIGHT_PAREN"
  /\ call.subparser = PositionalParser(Sym("*"), <<>>, FALSE)
  /\ result.tree.body = None
  /\ Len(result.tree.children) = 2
  /\ Consumed = 2

\* ------------------------------------------------------------------ C17

\* The children of a node of one kind, in child order.
ChildrenOfKind(node, kind) ==
  SelectSeq(node.children, LAMBDA c : IsNode(c) /\ c.node_type = kind)

\* The trees of StandardArgTree.parse in a tree: the nodes with the two views.
StandardTrees(tree) == {n \in AllNodes(tree) : "parg_groups" \in DOMAIN n}

\* No group is twice in a list of groups; every group holds a token of its own.
NoneTwice(groups) ==
  \A i, j \in DOMAIN groups :
    i # j => Locs(get_tokens(groups[i])) \cap Locs(get_tokens(groups[j])) = {}

\* C17: in every tree StandardArgTree.parse returns, the outermost and the
\* nested ones, parg_groups is the sequence of the children of kind PARGGROUP
\* and kwarg_groups that of the children of kind KWARGGROUP, in child order,
\* and no group appears twice.
C17_Views ==
  (pc = "parsed" /\ result.status = "ok")
    => \A n \in StandardTrees(result.tree) :
         /\ n.parg_groups = ChildrenOfKind(n, "PARGGROUP")
         /\ n.kwarg_groups = ChildrenOfKind(n, "KWARGGROUP")
         /\ NoneTwice(n.parg_groups \o n.kwarg_groups)
         /\ \A i \in DOMAIN n.parg_groups : get_tokens(n.parg_groups[i]) # <<>>

\* A tree with leading whitespace, a positional group and a keyword group.
C17_Witness ==
  /\ Returned("StandardArgTree.parse")
  /\ Len(result.tree.children) = 3
  /\ IsToken(result.tree.children[1])
  /\ Len(result.tree.parg_groups) = 1
  /\ Len(result.tree.kwarg_groups) = 1

\* ------------------------------------------------------------------ C18

SortableDirectives == {"# cmake-format: sortable", "# cmf: sort"}

UnsortableDirectives == {"# cmake-format: unsortable", "# cmf: unsort"}

IsDirective(token, spellings) == token.type = "COMMENT" /\ token.spelling \in spellings

\* The places in the stream of the tokens that are no whitespace.
NonWhitespace == {i \in DOMAIN stream : stream[i].type \notin WHITESPACE_TOKENS}

FirstNonWhitespace == CHOOSE i \in NonWhitespace : \A j \in NonWhitespace : i <= j

\* The first token of the stream that is no whitespace is a directive comment.
StartsWithDirective ==
  /\ NonWhitespace # {}
  /\ IsDirective(stream[FirstNonWhitespace], SortableDirectives \cup UnsortableDirectives)

\* The flag the directive asks for: of the first token that is no whitespace
\* and of no later one, the caller's default without it.
ExpectedSortable ==
  IF NonWhitespace = {} THEN call.sortable
  ELSE IF IsDirective(stream[FirstNonWhitespace], SortableDirectives) THEN TRUE
  ELSE IF IsDirective(stream[FirstNonWhitespace], UnsortableDirectives) THEN FALSE
  ELSE call.sortable

\* The directive is a COMMENT child of the group.
DirectiveKept ==
  \E i \in DOMAIN result.tree.children :
    result.tree.children[i]
      = [node_type |-> "COMMENT", children |-> <<stream[FirstNonWhitespace]>>]

\* C18 as stated: the flag is the one the leading directive asks for, the
\* caller's default otherwise, and the directive is kept in the tree.
C18_Original ==
  Returned("PositionalGroupNode.parse")
    => /\ result.tree.sortable = ExpectedSortable
       /\ StartsWithDirective => DirectiveKept

\* C18, amended: the flag is the one the leading directive asks for, the
\* caller's default otherwise, and the directive is kept in the tree as a
\* COMMENT child of the group unless the arity is exactly 0: the group is
\* then full at once and leaves the directive in the stream.
C18_Sortable ==
  Returned("PositionalGroupNode.parse")
    => /\ result.tree.sortable = ExpectedSortable
       /\ (StartsWithDirective /\ call.npargs # Exact(0)) => DirectiveKept
       /\ (StartsWithDirective /\ call.npargs = Exact(0))
            => /\ ~DirectiveKept
               /\ result.tokens = SubSeq(stream, FirstNonWhitespace, Len(stream))

\* A space, an unsortable directive, a sortable one: the first counts.
C18_Witness ==
  /\ Returned("PositionalGroupNode.parse")
  /\ call.sortable
  /\ Len(stream) = 3
  /\ stream[1].type = "WHITESPACE"
  /\ IsDirective(stream[2], UnsortableDirectives)
  /\ IsDirective(stream[3], SortableDirectives)
  /\ ~result.tree.sortable
  /\ DirectiveKept
  /\ result.tokens = <<>>

\* ------------------------------------------------------------------ C19

\* The dicts given for a command, lower-cased, that set the key, by place in
\* the per_command argument.
OverridesOf(command, key) ==
  IF call.per_command = NoneValue THEN {}
  ELSE {i \in DOMAIN call.per_command.items :
          /\ lower(call.per_command.items[i].command) = command
          /\ "dict" \in DOMAIN call.per_command.items[i].cdict
          /\ key \in DOMAIN call.per_command.items[i].cdict.dict}

\* The commands given a dict in the per_command argument, lower-cased.
CommandsGiven ==
  IF call.per_command = NoneValue THEN {}
  ELSE {lower(call.per_command.items[i].command) :
          i \in {j \in DOMAIN call.per_command.items :
                   "dict" \in DOMAIN call.per_command.items[j].cdict}}

\* The table after construction: the built-in one with every dict given for
\* a command merged onto the entry of its lower-cased name, the last one
\* given winning; what is no dict leaves no trace.
MergedOntoBuiltin ==
  /\ DOMAIN config.per_command = DOMAIN call.default_config \cup CommandsGiven
  /\ \A command \in DOMAIN config.per_command : \A key \in ConfigKeys :
       LET given == OverridesOf(command, key)
           builtin == command \in DOMAIN call.default_config
                        /\ key \in DOMAIN call.default_config[command]
       IN IF given # {}
          THEN /\ key \in DOMAIN config.per_command[command]
               /\ config.per_command[command][key]
                    = call.per_command.items[CHOOSE i \in given : \A j \in given : j <= i]
                        .cdict.dict[key]
          ELSE IF builtin
          THEN /\ key \in DOMAIN config.per_command[command]
               /\ config.per_command[command][key] = call.default_config[command][key]
          ELSE key \notin DOMAIN config.per_command[command]

\* The table has an override of the key for the lower-cased command name.
HasOverride ==
  /\ lower(call.command_name) \in DOMAIN config.per_command
  /\ call.config_key \in DOMAIN config.per_command[lower(call.command_name)]

\* C19: resolve_for_command returns the per-command override of the key for
\* the lower-cased command name when there is one, and otherwise the global
\* value of the key, or the default given when the key is no global field;
\* the overrides given at construction are merged onto the built-in table
\* under lower-cased command names, and one that is no dict is skipped.
C19_ResolveForCommand ==
  /\ pc = "constructed" => MergedOntoBuiltin
  /\ (pc = "resolved" /\ result.status = "ok")
       => result.value =
            IF HasOverride
            THEN config.per_command[lower(call.command_name)][call.config_key]
            ELSE IF call.config_key = "line_width" THEN config.fields["line_width"]
            ELSE call.default_value
  /\ (pc = "resolved" /\ call.default_value = NoneValue) => result.status = "ok"

\* The override given under a name lower-cased at construction answers the
\* lookup under the upper-case name, and differs from the global value.
C19_Witness ==
  /\ pc = "resolved"
  /\ call.command_name = "FOO"
  /\ call.config_key = "line_width"
  /\ HasOverride
  /\ result.status = "ok"
  /\ result.value = IntValue(40)
  /\ config.fields["line_width"] = IntValue(80)

\* ------------------------------------------------------------------ C20

\* The places among the first i tokens of the tokens of one type.
PlacesOf(tokens, type, i) == {j \in 1..i : tokens[j].type = type}

\* Every right parenthesis closes a left one before it, none is left open.
Balanced(tokens) ==
  /\ \A i \in DOMAIN tokens :
       Cardinality(PlacesOf(tokens, "RIGHT_PAREN", i))
         <= Cardinality(PlacesOf(tokens, "LEFT_PAREN", i))
  /\ Cardinality(PlacesOf(tokens, "RIGHT_PAREN", Len(tokens)))
       = Cardinality(PlacesOf(tokens, "LEFT_PAREN", Len(tokens)))

IsComment(x) == IsNode(x) /\ x.node_type = "COMMENT"

\* LPAREN, one conditional group, RPAREN, then nothing or the trailing
\* comment, with the whitespace before it if there is some.
ParenGroupShape(group) ==
  /\ Len(group.children) \in 3..5
  /\ IsNode(group.children[1]) /\ group.children[1].node_type = "LPAREN"
  /\ Len(group.children[1].children) = 1
  /\ group.children[1].children[1].type = "LEFT_PAREN"
  /\ IsNode(group.children[2]) /\ group.children[2].node_type = "ARGGROUP"
  /\ IsNode(group.children[3]) /\ group.children[3].node_type = "RPAREN"
  /\ Len(group.children[3].children) = 1
  /\ group.children[3].children[1].type = "RIGHT_PAREN"
  /\ Len(group.children) = 4 => IsComment(group.children[4])
  /\ Len(group.children) = 5
       => /\ IsToken(group.children[4]) /\ group.children[4].type = "WHITESPACE"
          /\ IsComment(group.children[5])
  /\ Balanced(get_tokens(group))

\* C20: the body parse of a parenthetical group, ConditionalGroupNode.parse
\* with [ParenBreaker], returns with the stream empty or at a right
\* parenthesis; no parse ends in the 'expecting r-paren' error; and every
\* parenthetical group of a returned tree is LPAREN, one conditional group,
\* RPAREN and at most a trailing comment, its parentheses balanced.
C20_ParenGroups ==
  /\ (Returned("ConditionalGroupNode.parse") /\ call.breakstack = <<ParenBreaker>>)
       => (result.tokens = <<>> \/ result.tokens[1].type = "RIGHT_PAREN")
  /\ pc = "parsed" => result.status # ExpectingRParen
  /\ (pc = "parsed" /\ result.status = "ok")
       => \A n \in AllNodes(result.tree) :
            n.node_type = "PARENGROUP" => ParenGroupShape(n)

\* ((a) b) # x: two groups, the outer one with its trailing comment.
C20_Witness ==
  /\ Returned("ParenGroupNode.parse")
  /\ stream = Lex(NestedStream)
  /\ result.tokens = <<>>
  /\ Len(result.tree.children) = 5
  /\ Cardinality({n \in AllNodes(result.tree) : n.node_type = "PARENGROUP"}) = 2

\* ------------------------------------------------------------------ C21

IsKeywordGroup(x) == IsNode(x) /\ x.node_type = "KWARGGROUP"

\* The keyword groups of AND and OR in a tree.
ConditionalKeywordGroups(tree) ==
  {n \in AllNodes(tree) :
     IsKeywordGroup(n) /\ upper(n.keyword.token.spelling) \in ConditionalKwargs}

\* No AND or OR keyword group of the tree has a keyword group as a direct
\* child of its body.
RECURSIVE FlatBodies(_)
FlatBodies(node) ==
  IF ~IsNode(node) \/ node = None THEN TRUE
  ELSE /\ (IsKeywordGroup(node) /\ node.body # None
             /\ upper(node.keyword.token.spelling) \in ConditionalKwargs)
            => \A i \in DOMAIN node.body.children : ~IsKeywordGroup(node.body.children[i])
       /\ \A i \in DOMAIN node.children : FlatBodies(node.children[i])

\* No keyword group of the tree lies below another one unless a parenthetical
\* group is between them; below tells that the node is below a keyword group
\* with no parenthetical group between.
RECURSIVE NestedThroughParens(_, _)
NestedThroughParens(node, below) ==
  IF ~IsNode(node) \/ node = None THEN TRUE
  ELSE IF node.node_type = "PARENGROUP"
  THEN \A i \in DOMAIN node.children : NestedThroughParens(node.children[i], FALSE)
  ELSE IF IsKeywordGroup(node)
  THEN ~below /\ \A i \in DOMAIN node.children : NestedThroughParens(node.children[i], TRUE)
  ELSE \A i \in DOMAIN node.children : NestedThroughParens(node.children[i], below)

FlatConditionCase ==
  /\ pc = "parsed"
  /\ call.op = "ConditionalGroupNode.parse"
  /\ stream = Lex(FlatConditionStream)

\* A, then the AND group with B in its body, then the OR group with C in its
\* body: three children of one conditional group.
FlatConditionShape(tree) ==
  /\ tree.node_type = "ARGGROUP"
  /\ NodeTypes(ChildNodes(tree)) = <<"PARGGROUP", "KWARGGROUP", "KWARGGROUP">>
  /\ Args(ChildNodes(tree)[1]) = <<"A">>
  /\ ChildNodes(tree)[2].keyword.token.spelling = "AND"
  /\ ChildNodes(tree)[2].body # None
  /\ NodeTypes(ChildNodes(ChildNodes(tree)[2].body)) = <<"PARGGROUP">>
  /\ Args(ChildNodes(ChildNodes(tree)[2].body)[1]) = <<"B">>
  /\ ChildNodes(tree)[3].keyword.token.spelling = "OR"
  /\ ChildNodes(tree)[3].body # None
  /\ NodeTypes(ChildNodes(ChildNodes(tree)[3].body)) = <<"PARGGROUP">>
  /\ Args(ChildNodes(ChildNodes(tree)[3].body)[1]) = <<"C">>

\* C21: in every returned tree the body of an AND or OR keyword group has
\* no keyword group as a direct child; in a tree of ConditionalGroupNode.parse
\* or ParenGroupNode.parse no keyword group lies below another one unless a
\* parenthetical group is between them; and A AND B OR C parses into
\* positional A, the AND group and the OR group, three children of the
\* top-level conditional group.
C21_FlatConditions ==
  /\ (pc = "parsed" /\ result.status = "ok") => FlatBodies(result.tree)
  /\ (Returned("ConditionalGroupNode.parse") \/ Returned("ParenGroupNode.parse"))
       => NestedThroughParens(result.tree, FALSE)
  /\ FlatConditionCase
       => (result.status = "ok" /\ Consumed = Len(stream)
             /\ FlatConditionShape(result.tree))

C21_Witness ==
  /\ FlatConditionCase
  /\ call.breakstack = <<ParenBreaker>>
  /\ result.status = "ok"
  /\ FlatConditionShape(result.tree)
  /\ Cardinality(ConditionalKeywordGroups(result.tree)) = 2

\* ------------------------------------------------------------------ C22

IsPositionalGroup(x) == IsNode(x) /\ x.node_type = "PARGGROUP"

\* The first child of a group that is no whitespace token is the comment of
\* a sortable directive.
LedBySortableDirective(group) ==
  \E i \in DOMAIN group.children :
    /\ IsComment(group.children[i])
    /\ IsDirective(group.children[i].children[1], SortableDirectives)
    /\ \A j \in 1..(i - 1) :
         IsToken(group.children[j]) /\ group.children[j].type \in WHITESPACE_TOKENS

\* Every positional group in the parg_groups of a StandardArgTree of the
\* tree has sortable False.
RECURSIVE PargGroupsUnsortable(_)
PargGroupsUnsortable(node) ==
  IF ~IsNode(node) \/ node = None THEN TRUE
  ELSE /\ "parg_groups" \in DOMAIN node
            => \A i \in DOMAIN node.parg_groups : node.parg_groups[i].sortable = FALSE
       /\ \A i \in DOMAIN node.children : PargGroupsUnsortable(node.children[i])

\* Every positional group of the tree with sortable True is the body of a
\* keyword group and begins with a sortable directive; is_body tells that
\* the node is the body of the keyword group above it.
RECURSIVE SortableUnderKeyword(_, _)
SortableUnderKeyword(node, is_body) ==
  IF ~IsNode(node) \/ node = None THEN TRUE
  ELSE /\ (IsPositionalGroup(node) /\ node.sortable)
            => (is_body /\ LedBySortableDirective(node))
       /\ \A i \in DOMAIN node.children :
            SortableUnderKeyword(node.children[i],
                                 /\ IsKeywordGroup(node)
                                 /\ node.body # None
                                 /\ i = Len(node.children))

\* The places of the stream after the keyword that hold no whitespace.
AfterKeyword == {i \in NonWhitespace : i > 1}

FirstAfterKeyword == CHOOSE i \in AfterKeyword : \A j \in AfterKeyword : i <= j

\* The flag of the body of a keyword group: set by a directive right after
\* the keyword, else the default of the sub-parser.
ExpectedBodySortable ==
  IF AfterKeyword # {} /\ IsDirective(stream[FirstAfterKeyword], SortableDirectives)
  THEN TRUE
  ELSE IF AfterKeyword # {} /\ IsDirective(stream[FirstAfterKeyword], UnsortableDirectives)
  THEN FALSE
  ELSE call.subparser.sortable

\* C22: every positional group in the parg_groups of a tree that
\* StandardArgTree.parse built, nested ones included, has sortable False;
\* in a tree of StandardArgTree.parse a positional group with sortable True
\* is the body of a keyword group and begins with a sortable directive; and
\* the body of a keyword group whose sub-parser is positional has the flag
\* the directive right after the keyword sets, else the sub-parser's default.
C22_SortableOnlyUnderKeyword ==
  /\ (pc = "parsed" /\ result.status = "ok") => PargGroupsUnsortable(result.tree)
  /\ Returned("StandardArgTree.parse") => SortableUnderKeyword(result.tree, FALSE)
  /\ (Returned("KeywordGroupNode.parse") /\ call.subparser.parser = "PositionalParser"
        /\ result.tree.body # None)
       => result.tree.body.sortable = ExpectedBodySortable

\* "# cmf: sort" a Foo "# cmake-format: sortable" b with FOO taking any
\* number of values: the group of a is not sortable, the body of FOO is.
C22_Witness ==
  /\ Returned("StandardArgTree.parse")
  /\ stream = Lex(DirectiveKeywordStream)
  /\ call.npargs = Sym("*")
  /\ Len(result.tree.parg_groups) = 1
  /\ Args(result.tree.parg_groups[1]) = <<"a">>
  /\ result.tree.parg_groups[1].sortable = FALSE
  /\ Len(result.tree.kwarg_groups) = 1
  /\ result.tree.kwarg_groups[1].body # None
  /\ result.tree.kwarg_groups[1].body.sortable = TRUE
  /\ Args(result.tree.kwarg_groups[1].body) = <<"b">>

\* ------------------------------------------------------------------ C23

ParenGroups(tree) == {n \in AllNodes(tree) : n.node_type = "PARENGROUP"}

\* The WORD tokens of a node.
Words(node) ==
  {get_tokens(node)[i] : i \in {j \in DOMAIN get_tokens(node) : get_tokens(node)[j].type = "WORD"}}

\* The token is the token of a node of that kind under the group.
KeptAs(group, token, kind) ==
  \E n \in AllNodes(group) :
    /\ n.node_type = kind
    /\ n.children # <<>>
    /\ n.children[1] = token

\* The keywords and flags of the call and of the breakstack it was given.
EnclosingWords ==
  (IF "kwargs" \in DOMAIN call THEN DOMAIN call.kwargs ELSE {})
    \cup (IF "flags" \in DOMAIN call THEN {upper(call.flags[i]) : i \in DOMAIN call.flags}
          ELSE {})
    \cup (IF "word" \in DOMAIN call THEN {upper(call.word)} ELSE {})
    \cup (IF call.op = "ConditionalGroupNode.parse" THEN ConditionalKwargs ELSE {})
    \cup UNION {call.breakstack[i].kwargs :
                 i \in {j \in DOMAIN call.breakstack :
                          call.breakstack[j].breaker = "KwargBreaker"}}

\* C23 as stated: a word in a parenthetical group that is a keyword or flag
\* of the enclosing call is kept there as an ARGUMENT.
C23_Original ==
  (pc = "parsed" /\ result.status = "ok")
    => \A p \in ParenGroups(result.tree) :
         \A w \in Words(p) :
           upper(w.spelling) \in EnclosingWords => KeptAs(p, w, "ARGUMENT")

\* The kind of the node a word gets in the conditional grammar of a
\* parenthetical group.
KindInParens(token) ==
  IF upper(token.spelling) \in ConditionalKwargs THEN "KEYWORD"
  ELSE IF upper(token.spelling) \in Range(CONDITIONAL_FLAGS) THEN "FLAG"
  ELSE "ARGUMENT"

\* Every word inside a parenthetical group of the tree is the token of a
\* node there of the kind the conditional grammar gives it, and the tokens
\* between the parentheses of each group are balanced; inside tells that the
\* node is in a parenthetical group.
RECURSIVE WordsKept(_, _)
WordsKept(node, inside) ==
  IF ~IsNode(node) \/ node = None THEN TRUE
  ELSE /\ inside
            => \A i \in DOMAIN node.children :
                 (IsToken(node.children[i]) /\ node.children[i].type = "WORD")
                   => (i = 1 /\ node.node_type = KindInParens(node.children[i]))
       /\ node.node_type = "PARENGROUP" => Balanced(get_tokens(node.children[2]))
       /\ \A i \in DOMAIN node.children :
            WordsKept(node.children[i], inside \/ node.node_type = "PARENGROUP")

IsolatedCase ==
  /\ pc = "parsed"
  /\ call.op = "StandardArgTree.parse"
  /\ stream = Lex(IsolatedStream)
  /\ call.npargs = Sym("*")
  /\ DOMAIN call.kwargs = {"FOO", "BAR"}

\* a and the group (not foo BAR) in one positional group, the three words
\* in the group as FLAG, ARGUMENT, ARGUMENT; then the keyword foo with b.
IsolatedShape(tree) ==
  /\ NodeTypes(ChildNodes(tree)) = <<"PARGGROUP", "KWARGGROUP">>
  /\ NodeTypes(ChildNodes(tree.parg_groups[1])) = <<"ARGUMENT", "PARENGROUP">>
  /\ Args(tree.parg_groups[1]) = <<"a">>
  /\ LET inner == ChildNodes(tree.parg_groups[1])[2].children[2]
     IN /\ NodeTypes(ChildNodes(inner)) = <<"PARGGROUP">>
        /\ NodeTypes(ChildNodes(ChildNodes(inner)[1])) = <<"FLAG", "ARGUMENT", "ARGUMENT">>
        /\ Args(ChildNodes(inner)[1]) = <<"not", "foo", "BAR">>
  /\ tree.kwarg_groups[1].keyword.token.spelling = "foo"
  /\ tree.kwarg_groups[1].keyword.token.loc = 11
  /\ tree.kwarg_groups[1].body # None
  /\ Args(tree.kwarg_groups[1].body) = <<"b">>

\* C23: in every returned tree each word inside a parenthetical group is
\* kept inside it, whatever the keywords, flags and breakstack of the
\* enclosing call: as the KEYWORD of a keyword group there when it is AND or
\* OR, as a FLAG when it is a flag of the conditional grammar, else as an
\* ARGUMENT; the tokens between the parentheses of the group are balanced,
\* so the group ends at its own right parenthesis; and in
\* a (not foo BAR) foo b with the keywords FOO and BAR the words in the
\* parentheses stay there and the foo after them opens the keyword group.
C23_ParenIsolation ==
  /\ (pc = "parsed" /\ result.status = "ok") => WordsKept(result.tree, FALSE)
  /\ IsolatedCase
       => (result.status = "ok" /\ Consumed = Len(stream) /\ IsolatedShape(result.tree))

C23_Witness ==
  /\ IsolatedCase
  /\ call.flags = <<"bar">>
  /\ result.status = "ok"
  /\ IsolatedShape(result.tree)
  /\ \E p \in ParenGroups(result.tree) :
       {upper(w.spelling) : w \in Words(p)} \cap EnclosingWords = {"FOO", "BAR"}

====
